---- MODULE Spec2Model ----
(***************************************************************************)
(* Model of erudita: the llms.txt documentation cache (lib/cache.ts), the  *)
(* fetcher (lib/fetcher.ts), the llms.txt parser (lib/llms-parser.ts) and  *)
(* the bounded fetch pool (lib/async-pool.ts).                             *)
(*                                                                         *)
(* Strings on which the code does character work (package keys, file       *)
(* names, URLs, lines of an llms.txt) are sequences of tokens: a token is  *)
(* one character, or a run of characters none of which the code looks at   *)
(* ("https://", "x.test", "llms.txt").  Opaque texts (cached file          *)
(* contents, source URLs of the cache) are TLA+ strings.  A value that may *)
(* be null in the code is a sequence of length 0 (null) or 1 (the value).  *)
(***************************************************************************)
EXTENDS Integers, Sequences, FiniteSets, TLC

VARIABLES
    \* ---- Cache Store (lib/cache.ts)
    packagesDir,   \* <cache-root>/packages : directory name -> package directory
    now,           \* Date.now()
    lastCall,      \* the cache operation that ran last, with its arguments and result
    prevCall,      \* the cache operation that ran before lastCall
    \* ---- Index Fetcher (fetchLlmsTxt)
    ixBase,        \* the baseUrl argument
    ixPc,          \* "call", "fetch" (awaiting fetch), "backoff" (awaiting the timer), "done"
    ixStage,       \* "direct": tryFetchLlmsTxt(baseUrl), "root": tryFetchLlmsTxt(rootUrl)
    ixPath,        \* index into LLMS_TXT_PATHS
    ixAttempt,     \* the attempt counter of fetchWithRetry
    ixRequests,    \* every URL passed to fetch(), in order
    ixLast,        \* what the last settled fetch() gave
    ixResult,      \* the value fetchLlmsTxt returned
    \* ---- fetchPackageDocs and asyncPool
    baseUrl,       \* the baseUrl argument
    concurrency,   \* options.concurrency
    pc,            \* "call", "index" (awaiting fetchLlmsTxt), "pool_loop", "pool_race",
                   \* "pool_all", "done"
    llmsResult,    \* what fetchLlmsTxt gave
    doc,           \* the parsed index, entries filtered
    docUrls,       \* the items of asyncPool
    docFiles,      \* the Map filename -> content, entries in insertion order
    completed,     \* the counters of fetchPackageDocs
    errors,
    poolIndex,     \* number of items the loop of asyncPool has started
    executing,     \* the Set of asyncPool, as item indexes
    raceSettled,   \* the Promise.race the loop awaits has settled
    taskPc,        \* per item: "idle", "fetch", "backoff", "done"
    taskAttempt,   \* per item: the attempt counter of fetchWithRetry
    fetched,       \* per item: "none", "content" (fetchDocFile gave a non-empty text),
                   \* "empty" (it gave ''), "null"
    fdResult,      \* the FetchResult returned
    progress,      \* the event of the last onProgress call
    progressCount, \* number of onProgress calls of the docs phase
    \* ---- cachePackage, one file system call at a time
    wrPc,          \* the next call: "idle" (no call runs), "mkdir", "llms", "docs", "meta"
    wrCall,        \* the arguments of the cachePackage call that runs
    wrFile,        \* index of the next entry of docFiles to write
    llmsBy,        \* directory name -> the cachePackage call (its time) that wrote llms.txt
    \* ---- Project Link Manager (lib/project.ts)
    linkDir,       \* <cwd>/.erudita : entry name -> symlink or copied directory
    linkKey,       \* entry name -> the package key createPackageLink made it for
    lastLink,      \* the link operation that ran last, with its arguments and result
    \* ---- install run without package arguments (commands/install.ts)
    inPc,          \* "idle" (no run), "start", "loop", "fetch" (awaiting fetchPackageDocs),
                   \* "done", "crashed" (an exception left run)
    inKeys,        \* Object.keys(config.packages) of erudita.json
    inForce,       \* the --force flag
    inIndex,       \* index in inKeys of the key the loop is at
    inFetched,     \* the keys fetchPackageDocs succeeded for in this run
    inFailed,      \* the keys fetchPackageDocs failed for in this run
    inLinked,      \* per createPackageLink of this run: the key, whether its cache entry
                   \* was absent or forced, whether it had been fetched
    gitignore,     \* .gitignore names .erudita
    \* ---- one call of a function of lib/llms-parser.ts, lib/npm.ts or lib/project.ts
    fnInput,       \* the function called and its arguments
    fnOutput,      \* the value it returned, none while the call has not run
    \* ---- DocumentationManager (packages/mcp-server)
    docCache,      \* this.cache : package key -> cache entry
    toolCall,      \* the tool call that ran last, with its arguments and outcome
    \* ---- one run of fetch, update or install with package arguments
    btCmd,         \* "none", "fetch", "update", "install"
    btItems,       \* the packages asked for
    btForce,       \* the --force flag
    btAll,         \* the --all flag of update
    btPc,          \* "idle", "start", "loop", "resolve" and "fetch" (awaiting
                   \* resolvePackageUrl, fetchPackageDocs), "resolveCached" (awaiting
                   \* resolvePackageUrl for erudita.json), "done", "usage", "crashed"
    btIndex,       \* index in btItems of the package the loop is at
    btCounts,      \* successCount, skipCount, failCount
    btProcessed,   \* per pass of the loop that ended: the package, whether it was
                   \* cached, whether its fetch was started, how the pass ended
    btConfig,      \* the keys of config.packages
    btManifest     \* the keys of packages in erudita.json

cacheVars == <<packagesDir, now, lastCall, prevCall>>

indexVars == <<ixBase, ixPc, ixStage, ixPath, ixAttempt, ixRequests, ixLast, ixResult>>

docsVars ==
    <<baseUrl, concurrency, pc, llmsResult, doc, docUrls, docFiles, completed, errors,
      poolIndex, executing, raceSettled, taskPc, taskAttempt, fetched, fdResult,
      progress, progressCount>>

progressVars == <<progress, progressCount>>

writeVars == <<wrPc, wrCall, wrFile, llmsBy>>

linkVars == <<linkDir, linkKey, lastLink>>

installVars == <<inPc, inKeys, inForce, inIndex, inFetched, inFailed, inLinked, gitignore>>

parserVars == <<fnInput, fnOutput>>

mcpVars == <<docCache, toolCall>>

batchVars ==
    <<btCmd, btItems, btForce, btAll, btPc, btIndex, btCounts, btProcessed, btConfig,
      btManifest>>

vars ==
    <<cacheVars, indexVars, docsVars, writeVars, linkVars, installVars, parserVars, mcpVars,
      batchVars>>

\* what the operations of one part leave alone
besidesCache ==
    <<indexVars, docsVars, writeVars, linkVars, installVars, parserVars, mcpVars,
      batchVars>>

besidesIndex ==
    <<cacheVars, docsVars, writeVars, linkVars, installVars, parserVars, mcpVars,
      batchVars>>

besidesDocs ==
    <<cacheVars, indexVars, writeVars, linkVars, installVars, parserVars, mcpVars,
      batchVars>>

besidesWrite ==
    <<indexVars, docsVars, linkVars, installVars, parserVars, mcpVars,
      batchVars>>

besidesLinks ==
    <<indexVars, docsVars, writeVars, installVars, parserVars, mcpVars,
      batchVars>>

besidesInstall ==
    <<lastCall, prevCall, lastLink, indexVars, docsVars, writeVars, parserVars, mcpVars,
      batchVars>>

besidesParser ==
    <<cacheVars, indexVars, docsVars, writeVars, linkVars, installVars, mcpVars, batchVars>>

besidesMcp ==
    <<cacheVars, indexVars, docsVars, writeVars, linkVars, installVars, parserVars, batchVars>>

besidesBatch ==
    <<lastCall, prevCall, lastLink, inPc, inKeys, inForce, inIndex, inFetched, inFailed,
      inLinked, indexVars, docsVars, writeVars, parserVars, mcpVars>>

\* ------------------------------------------------------------------------
\* Bounds and input domains
\* ------------------------------------------------------------------------

\* number of cachePackage calls in one behaviour (the clock stops there)
MaxCalls == 2

\* package keys: unscoped, scoped, and a name holding the token "__"
PackageKeys ==
    { <<"p">>,
      <<"@", "s", "/", "n">>,
      <<"@", "s", "_", "_", "n">> }

SourceUrls == {"https://a.test", "https://b.test"}

RawTexts == {"# A", "# B"}

DocContents == {"one", "two"}

\* document file names, differing only in a path separator
FileNames ==
    { <<"a", "/", "b">>,
      <<"a", "_", "b">> }

\* a docFiles Map: its entries in insertion order, keys pairwise distinct
DocMaps ==
    { d \in UNION { [1..n -> FileNames \X DocContents] : n \in 0..Cardinality(FileNames) } :
        \A i, j \in 1..Len(d) : i # j => d[i][1] # d[j][1] }

\* the sequences over S of length up to n
RECURSIVE SeqsUpTo(_, _)
SeqsUpTo(S, n) ==
    IF n = 0 THEN { <<>> }
    ELSE LET shorter == SeqsUpTo(S, n - 1)
         IN  shorter \cup { Append(q, x) : q \in { t \in shorter : Len(t) = n - 1 }, x \in S }

MapKeys(d) == { d[i][1] : i \in 1..Len(d) }

MapGet(d, f) == LET i == CHOOSE x \in 1..Len(d) : d[x][1] = f IN d[i][2]

\* ------------------------------------------------------------------------
\* String helpers
\* ------------------------------------------------------------------------

\* String.prototype.replace(pat, rep) with a string pattern: first occurrence only
ReplaceFirst(s, pat, rep) ==
    LET n == Len(s)
        m == Len(pat)
        hits == { i \in 1..(n - m + 1) : SubSeq(s, i, i + m - 1) = pat }
    IN  IF hits = {} THEN s
        ELSE LET i == CHOOSE x \in hits : \A y \in hits : x <= y
             IN  SubSeq(s, 1, i - 1) \o rep \o SubSeq(s, i + m, n)

\* filename.replace(/[/\\]/g, '_')
SanitizeFilename(f) ==
    [i \in 1..Len(f) |-> IF f[i] \in {"/", "\\"} THEN "_" ELSE f[i]]

\* ------------------------------------------------------------------------
\* lib/cache.ts
\* ------------------------------------------------------------------------

\* a directory without entries
NoEntries == [x \in {} |-> <<>>]

\* the last path segment of getPackageCacheDir(packageKey)
getPackageCacheDir(packageKey) == ReplaceFirst(packageKey, <<"/">>, <<"_", "_">>)

getPackageDir(packageName) == getPackageCacheDir(packageName)

isCachedIn(disk, packageName) == getPackageDir(packageName) \in DOMAIN disk

isCached(packageName) == isCachedIn(packagesDir, packageName)

getCachedMetaIn(disk, packageName) ==
    LET dir == getPackageDir(packageName)
    IN  IF dir \in DOMAIN disk THEN disk[dir].meta ELSE <<>>

getCachedMeta(packageName) == getCachedMetaIn(packagesDir, packageName)

getCachedLlmsTxtIn(disk, packageName) ==
    LET dir == getPackageDir(packageName)
    IN  IF dir \in DOMAIN disk THEN disk[dir].llms ELSE <<>>

getCachedLlmsTxt(packageName) == getCachedLlmsTxtIn(packagesDir, packageName)

getCachedDocFileIn(disk, packageName, filename) ==
    LET dir == getPackageDir(packageName)
        safeName == SanitizeFilename(filename)
    IN  IF dir \in DOMAIN disk /\ safeName \in DOMAIN disk[dir].docs
        THEN <<disk[dir].docs[safeName]>>
        ELSE <<>>

getCachedDocFile(packageName, filename) ==
    getCachedDocFileIn(packagesDir, packageName, filename)

\* listCached(): one <<directory, meta>> pair per directory whose meta.json reads
listCachedIn(disk) ==
    { <<dir, getCachedMetaIn(disk, ReplaceFirst(dir, <<"_", "_">>, <<"/">>))[1]>> :
        dir \in { x \in DOMAIN disk :
                    getCachedMetaIn(disk, ReplaceFirst(x, <<"_", "_">>, <<"/">>)) # <<>> } }

listCached == listCachedIn(packagesDir)

\* mkdirSync(docsDir, {recursive: true})
EmptyPackageDir == [llms |-> <<>>, meta |-> <<>>, docs |-> NoEntries]

MkdirDocs(disk, dir) ==
    IF dir \in DOMAIN disk THEN disk
    ELSE [x \in DOMAIN disk \cup {dir} |-> IF x = dir THEN EmptyPackageDir ELSE disk[x]]

\* the for loop over docFiles: entry i overwrites what entries before it wrote
RECURSIVE WriteDocFiles(_, _, _)
WriteDocFiles(docs, files, i) ==
    IF i > Len(files) THEN docs
    ELSE LET safeName == SanitizeFilename(files[i][1])
             written == [x \in DOMAIN docs \cup {safeName} |->
                            IF x = safeName THEN files[i][2] ELSE docs[x]]
         IN  WriteDocFiles(written, files, i + 1)

cachePackageOn(disk, packageName, sourceUrl, rawLlmsTxt, files, time) ==
    LET dir == getPackageDir(packageName)
        made == MkdirDocs(disk, dir)
        meta == [name |-> packageName, sourceUrl |-> sourceUrl, fetchedAt |-> time]
    IN  [made EXCEPT ![dir] =
            [llms |-> <<rawLlmsTxt>>,
             meta |-> <<meta>>,
             docs |-> WriteDocFiles(made[dir].docs, files, 1)]]

removeFromCacheOn(disk, packageName) ==
    LET dir == getPackageDir(packageName)
    IN  [x \in DOMAIN disk \ {dir} |-> disk[x]]

NoCall == [op |-> "none"]

CachePackage ==
    /\ now <= MaxCalls
    /\ \E k \in PackageKeys, u \in SourceUrls, t \in RawTexts, d \in DocMaps :
        /\ packagesDir' = cachePackageOn(packagesDir, k, u, t, d, now)
        /\ lastCall' = [op |-> "cachePackage", key |-> k, sourceUrl |-> u,
                        rawLlmsTxt |-> t, docFiles |-> d, time |-> now]
    /\ now' = now + 1
    /\ prevCall' = lastCall
    /\ UNCHANGED besidesCache

RemoveFromCache ==
    /\ \E k \in PackageKeys :
        /\ packagesDir' = removeFromCacheOn(packagesDir, k)
        /\ lastCall' = [op |-> "removeFromCache", key |-> k, result |-> isCached(k)]
    /\ prevCall' = lastCall
    /\ UNCHANGED <<now, besidesCache>>

ClearCache ==
    /\ packagesDir' = NoEntries
    /\ lastCall' = [op |-> "clearCache"]
    /\ prevCall' = lastCall
    /\ UNCHANGED <<now, besidesCache>>

\* ------------------------------------------------------------------------
\* lib/cache.ts : cachePackage as the sequence of its file system calls, which
\* another process reading the cache observes one by one and which the end of
\* the process cuts short
\* ------------------------------------------------------------------------

\* writeFileSync(join(packageDir, 'llms.txt'), rawLlmsTxt)
WriteLlmsTxt(disk, dir, rawLlmsTxt) == [disk EXCEPT ![dir].llms = <<rawLlmsTxt>>]

\* writeFileSync(join(docsDir, safeName), content) for one entry of docFiles
WriteDocFile(disk, dir, entry) ==
    [disk EXCEPT ![dir].docs =
        [x \in DOMAIN @ \cup {SanitizeFilename(entry[1])} |->
            IF x = SanitizeFilename(entry[1]) THEN entry[2] ELSE @[x]]]

\* writeFileSync(join(packageDir, 'meta.json'), JSON.stringify(meta))
WriteMeta(disk, dir, call) ==
    [disk EXCEPT ![dir].meta =
        << [name |-> call.key, sourceUrl |-> call.sourceUrl, fetchedAt |-> call.time] >>]

\* cachePackage(packageName, sourceUrl, _, rawLlmsTxt, docFiles) is called
WrCall ==
    /\ wrPc = "idle"
    /\ now <= MaxCalls
    /\ \E k \in PackageKeys, u \in SourceUrls, t \in RawTexts, d \in DocMaps :
        wrCall' = [op |-> "cachePackage", key |-> k, sourceUrl |-> u,
                   rawLlmsTxt |-> t, docFiles |-> d, time |-> now]
    /\ now' = now + 1
    /\ wrPc' = "mkdir"
    /\ wrFile' = 1
    /\ UNCHANGED <<packagesDir, lastCall, prevCall, llmsBy, besidesWrite>>

\* mkdirSync(docsDir, {recursive: true})
WrMkdir ==
    /\ wrPc = "mkdir"
    /\ packagesDir' = MkdirDocs(packagesDir, getPackageDir(wrCall.key))
    /\ wrPc' = "llms"
    /\ UNCHANGED <<now, lastCall, prevCall, wrCall, wrFile, llmsBy, besidesWrite>>

\* llms.txt is written
WrLlms ==
    /\ wrPc = "llms"
    /\ packagesDir' = WriteLlmsTxt(packagesDir, getPackageDir(wrCall.key), wrCall.rawLlmsTxt)
    /\ llmsBy' = [x \in DOMAIN llmsBy \cup {getPackageDir(wrCall.key)} |->
                    IF x = getPackageDir(wrCall.key) THEN wrCall.time ELSE llmsBy[x]]
    /\ wrPc' = "docs"
    /\ UNCHANGED <<now, lastCall, prevCall, wrCall, wrFile, besidesWrite>>

\* one pass of the loop over docFiles
WrDoc ==
    /\ wrPc = "docs"
    /\ wrFile <= Len(wrCall.docFiles)
    /\ packagesDir' = WriteDocFile(packagesDir, getPackageDir(wrCall.key),
                                   wrCall.docFiles[wrFile])
    /\ wrFile' = wrFile + 1
    /\ UNCHANGED <<now, lastCall, prevCall, wrPc, wrCall, llmsBy, besidesWrite>>

\* the loop is over
WrDocsDone ==
    /\ wrPc = "docs"
    /\ wrFile > Len(wrCall.docFiles)
    /\ wrPc' = "meta"
    /\ UNCHANGED <<packagesDir, now, lastCall, prevCall, wrCall, wrFile, llmsBy, besidesWrite>>

\* meta.json is written and cachePackage returns
WrMeta ==
    /\ wrPc = "meta"
    /\ packagesDir' = WriteMeta(packagesDir, getPackageDir(wrCall.key), wrCall)
    /\ wrPc' = "idle"
    /\ lastCall' = wrCall
    /\ prevCall' = lastCall
    /\ UNCHANGED <<now, wrCall, wrFile, llmsBy, besidesWrite>>

\* the process ends (a signal, a crash, a full disk) between two calls
WrInterrupt ==
    /\ wrPc \in {"mkdir", "llms", "docs", "meta"}
    /\ wrPc' = "idle"
    /\ lastCall' = [op |-> "interrupted", key |-> wrCall.key]
    /\ prevCall' = lastCall
    /\ UNCHANGED <<packagesDir, now, wrCall, wrFile, llmsBy, besidesWrite>>

\* ------------------------------------------------------------------------
\* lib/project.ts : createPackageLink, removePackageLink, pruneProjectLinks
\*
\* The file system is [cache |-> the packages directory, project |-> the
\* .erudita directory]; a path is [root |-> "cache" or "project", name |-> the
\* entry name].  An entry of .erudita is [kind |-> "symlink", target |-> a
\* directory name of the cache] or [kind |-> "dir", content |-> a package
\* directory].  A missing .erudita directory and an empty one read alike.
\* ------------------------------------------------------------------------

\* package keys of a project: unscoped, scoped, and a name holding "__"
LinkKeys ==
    { <<"p">>,
      <<"@", "s", "/", "n">>,
      <<"a", "_", "_", "b">> }

LinkModes == {"link", "copy"}

\* what the install command caches for a key
LinkDocMaps == { << <<(<<"a", "/", "b">>), "one">> >> }

CachePath(name) == [root |-> "cache", name |-> name]

ProjectPath(name) == [root |-> "project", name |-> name]

\* join(linkDir, packageKey.replace('/', '__'))
LinkName(packageKey) == ReplaceFirst(packageKey, <<"/">>, <<"_", "_">>)

\* entry.replace('__', '/')
KeyOfEntry(entry) == ReplaceFirst(entry, <<"_", "_">>, <<"/">>)

Without(dir, name) == [x \in DOMAIN dir \ {name} |-> dir[x]]

With(dir, name, entry) == [x \in DOMAIN dir \cup {name} |-> IF x = name THEN entry ELSE dir[x]]

\* existsSync(path): a symbolic link is followed
existsSync(fs, path) ==
    IF path.root = "cache" THEN path.name \in DOMAIN fs.cache
    ELSE /\ path.name \in DOMAIN fs.project
         /\ \/ fs.project[path.name].kind = "dir"
            \/ fs.project[path.name].target \in DOMAIN fs.cache

\* lstatSync(path).isDirectory(): a symbolic link is not followed
lstatIsDirectory(fs, path) ==
    path.root = "cache" \/ fs.project[path.name].kind = "dir"

\* rmSync(path, {recursive: true, force: true})
rmSync(fs, path) ==
    IF path.root = "cache" THEN [fs EXCEPT !.cache = Without(@, path.name)]
    ELSE [fs EXCEPT !.project = Without(@, path.name)]

\* unlinkSync(path) of a symbolic link
unlinkSyncWithTarget(fs, path) ==
    [cache |-> Without(fs.cache, fs.project[path.name].target),
     project |-> Without(fs.project, path.name)]

unlinkSync(fs, path) == [fs EXCEPT !.project = Without(@, path.name)]

\* symlinkSync(target, path, 'dir'): EEXIST when the path holds an entry, be it
\* a symbolic link whose target is missing
symlinkSync(fs, target, path) ==
    IF path.name \in DOMAIN fs.project
    THEN [fs |-> fs, threw |-> TRUE]
    ELSE [fs |-> [fs EXCEPT !.project =
                      With(@, path.name, [kind |-> "symlink", target |-> target.name])],
          threw |-> FALSE]

\* a copy that shares the directory of the cache
cpSyncByReference(fs, src, dst) ==
    IF ~existsSync(fs, src)
    THEN [fs |-> fs, threw |-> TRUE]
    ELSE [fs |-> [fs EXCEPT !.project =
                      With(@, dst.name, [kind |-> "symlink", target |-> src.name])],
          threw |-> FALSE]

\* cpSync(src, dst, {recursive: true}) of a directory of the cache: ENOENT when
\* src is missing
cpSync(fs, src, dst) ==
    IF ~existsSync(fs, src)
    THEN [fs |-> fs, threw |-> TRUE]
    ELSE [fs |-> [fs EXCEPT !.project =
                      With(@, dst.name, [kind |-> "dir", content |-> fs.cache[src.name]])],
          threw |-> FALSE]

\* the removal both createPackageLink and removePackageLink start with, and
\* pruneProjectLinks applies to an entry
RemoveEntry(fs, linkPath) ==
    IF lstatIsDirectory(fs, linkPath) THEN rmSync(fs, linkPath) ELSE unlinkSync(fs, linkPath)

\* "Remove existing entry if present"
ClearLinkPathOfSymlink(fs, linkPath) ==
    IF existsSync(fs, linkPath) /\ ~lstatIsDirectory(fs, linkPath)
    THEN unlinkSync(fs, linkPath) ELSE fs

ClearLinkPath(fs, linkPath) ==
    IF existsSync(fs, linkPath) THEN RemoveEntry(fs, linkPath) ELSE fs

createPackageLinkOn(fs, packageKey, mode) ==
    IF mode = "copy"
    THEN cpSync(ClearLinkPath(fs, ProjectPath(LinkName(packageKey))),
                CachePath(getPackageCacheDir(packageKey)),
                ProjectPath(LinkName(packageKey)))
    ELSE symlinkSync(ClearLinkPath(fs, ProjectPath(LinkName(packageKey))),
                     CachePath(getPackageCacheDir(packageKey)),
                     ProjectPath(LinkName(packageKey)))

removePackageLinkOn(fs, packageKey) ==
    IF ~existsSync(fs, ProjectPath(LinkName(packageKey)))
    THEN [fs |-> fs, result |-> FALSE]
    ELSE [fs |-> RemoveEntry(fs, ProjectPath(LinkName(packageKey))), result |-> TRUE]

\* the entries pruneProjectLinks removes
PrunedInverted(entries, keepKeys) == { e \in entries : KeyOfEntry(e) \in keepKeys }

Pruned(entries, keepKeys) == { e \in entries : KeyOfEntry(e) \notin keepKeys }

\* the for loop over readdirSync(linkDir), the entries in todo still to visit
RECURSIVE PruneEntries(_, _)
PruneEntries(fs, todo) ==
    IF todo = {} THEN fs
    ELSE LET e == CHOOSE x \in todo : TRUE
         IN  PruneEntries(RemoveEntry(fs, ProjectPath(e)), todo \ {e})

pruneProjectLinksOn(fs, keepKeys) ==
    [fs |-> PruneEntries(fs, Pruned(DOMAIN fs.project, keepKeys)),
     removed |-> { KeyOfEntry(e) : e \in Pruned(DOMAIN fs.project, keepKeys) }]

FileSystem == [cache |-> packagesDir, project |-> linkDir]

NoLink == [op |-> "none"]

\* what lstatSync finds at the link path of a key: "none", "symlink" or "dir"
EntryKind(links, packageKey) ==
    IF LinkName(packageKey) \in DOMAIN links THEN links[LinkName(packageKey)].kind ELSE "none"

\* createPackageLink(cwd, packageKey, mode)
CreatePackageLink ==
    /\ \E k \in LinkKeys, mode \in LinkModes :
        \E made \in {createPackageLinkOn(FileSystem, k, mode)} :
            /\ packagesDir' = made.fs.cache
            /\ linkDir' = made.fs.project
            /\ linkKey' = IF made.threw THEN [x \in DOMAIN linkKey \cap DOMAIN linkDir' |-> linkKey[x]]
                           ELSE With(linkKey, LinkName(k), k)
            /\ lastLink' = [op |-> "createPackageLink", key |-> k, mode |-> mode,
                            cached |-> isCached(k), had |-> EntryKind(linkDir, k),
                            threw |-> made.threw]
    /\ UNCHANGED <<now, lastCall, prevCall, besidesLinks>>

\* removePackageLink(cwd, packageKey)
RemovePackageLink ==
    /\ \E k \in LinkKeys :
        \E gone \in {removePackageLinkOn(FileSystem, k)} :
            /\ packagesDir' = gone.fs.cache
            /\ linkDir' = gone.fs.project
            /\ linkKey' = [x \in DOMAIN linkKey \cap DOMAIN linkDir' |-> linkKey[x]]
            /\ lastLink' = [op |-> "removePackageLink", key |-> k,
                            had |-> EntryKind(linkDir, k), result |-> gone.result]
    /\ UNCHANGED <<now, lastCall, prevCall, besidesLinks>>

\* pruneProjectLinks(cwd, keepKeys)
PruneProjectLinks ==
    /\ \E keepKeys \in SUBSET LinkKeys :
        \E pruned \in {pruneProjectLinksOn(FileSystem, keepKeys)} :
            /\ packagesDir' = pruned.fs.cache
            /\ linkDir' = pruned.fs.project
            /\ linkKey' = [x \in DOMAIN linkKey \cap DOMAIN linkDir' |-> linkKey[x]]
            /\ lastLink' = [op |-> "pruneProjectLinks", keepKeys |-> keepKeys,
                            removed |-> pruned.removed]
    /\ UNCHANGED <<now, lastCall, prevCall, besidesLinks>>

\* the cache operations a project's commands run between link operations
LkCachePackage ==
    /\ now <= MaxCalls
    /\ \E k \in LinkKeys, d \in LinkDocMaps :
        packagesDir' = cachePackageOn(packagesDir, k, "https://a.test", "# A", d, now)
    /\ now' = now + 1
    /\ lastLink' = [op |-> "cachePackage"]
    /\ UNCHANGED <<lastCall, prevCall, linkDir, linkKey, besidesLinks>>

LkRemoveFromCache ==
    /\ \E k \in LinkKeys : packagesDir' = removeFromCacheOn(packagesDir, k)
    /\ lastLink' = [op |-> "removeFromCache"]
    /\ UNCHANGED <<now, lastCall, prevCall, linkDir, linkKey, besidesLinks>>

LkClearCache ==
    /\ packagesDir' = NoEntries
    /\ lastLink' = [op |-> "clearCache"]
    /\ UNCHANGED <<now, lastCall, prevCall, linkDir, linkKey, besidesLinks>>

\* ------------------------------------------------------------------------
\* commands/install.ts : run without package arguments and without --deps
\* ------------------------------------------------------------------------

\* Object.keys(config.packages): the keys of erudita.json in file order
ManifestKeys ==
    { ks \in UNION { [1..n -> LinkKeys] : n \in 0..Cardinality(LinkKeys) } :
        \A i, j \in 1..Len(ks) : i # j => ks[i] # ks[j] }

KeySet(ks) == { ks[i] : i \in 1..Len(ks) }

\* what fetchPackageDocs(url, ...) resolves to: a failure, or an index text
\* with its documents
InstallFetchResults ==
    { [success |-> FALSE, rawLlmsTxt |-> "", docFiles |-> <<>>] }
    \cup { [success |-> TRUE, rawLlmsTxt |-> "# B", docFiles |-> d] : d \in LinkDocMaps }

\* a cache that holds the keys of todo, cached by earlier runs
RECURSIVE CacheOf(_, _)
CacheOf(disk, todo) ==
    IF todo = {} THEN disk
    ELSE LET k == CHOOSE x \in todo : TRUE
         IN  CacheOf(cachePackageOn(disk, k, "https://a.test", "# A", <<>>, 0), todo \ {k})

\* a .erudita directory that holds a symlink for each key of todo
RECURSIVE LinksOf(_, _)
LinksOf(links, todo) ==
    IF todo = {} THEN links
    ELSE LET k == CHOOSE x \in todo : TRUE
         IN  LinksOf(With(links, LinkName(k),
                          [kind |-> "symlink", target |-> getPackageCacheDir(k)]),
                     todo \ {k})

\* the run takes the no-arguments branch: pruneProjectLinks, then the early
\* return when erudita.json names no package
InStart ==
    /\ inPc = "start"
    /\ \E pruned \in {pruneProjectLinksOn(FileSystem, KeySet(inKeys))} :
        /\ packagesDir' = pruned.fs.cache
        /\ linkDir' = pruned.fs.project
        /\ linkKey' = [x \in DOMAIN linkKey \cap DOMAIN linkDir' |-> linkKey[x]]
    /\ inPc' = IF inKeys = <<>> THEN "done" ELSE "loop"
    /\ UNCHANGED <<now, inKeys, inForce, inIndex, inFetched, inFailed, inLinked, gitignore,
                   besidesInstall>>

\* createPackageLink(cwd, packageKey) of the run, wasFetched telling whether the
\* key was fetched before
InLink(fs, packageKey, wasFetched) ==
    \E made \in {createPackageLinkOn(fs, packageKey, "link")} :
        /\ packagesDir' = made.fs.cache
        /\ linkDir' = made.fs.project
        /\ linkKey' = IF made.threw THEN [x \in DOMAIN linkKey \cap DOMAIN linkDir' |-> linkKey[x]]
                       ELSE With(linkKey, LinkName(packageKey), packageKey)
        /\ inLinked' = inLinked \cup
                          { [key |-> packageKey,
                             needed |-> inForce \/ ~isCached(packageKey),
                             fetched |-> wasFetched] }
        /\ IF made.threw
           THEN inPc' = "crashed" /\ UNCHANGED inIndex
           ELSE inPc' = "loop" /\ inIndex' = inIndex + 1

\* one pass of the loop over the keys, up to its await or its continue
InNext ==
    /\ inPc = "loop"
    /\ inIndex <= Len(inKeys)
    /\ IF isCached(inKeys[inIndex]) /\ ~inForce
       THEN /\ InLink(FileSystem, inKeys[inIndex], FALSE)
            /\ UNCHANGED <<now, inFetched, inFailed>>
       ELSE /\ inPc' = "fetch"
            /\ UNCHANGED <<packagesDir, now, linkDir, linkKey, inIndex, inFetched, inFailed,
                           inLinked>>
    /\ UNCHANGED <<inKeys, inForce, gitignore, besidesInstall>>

\* the cache after "if (!result.success) { ...; continue }" and the
\* cachePackage call that follows it
CacheAfterFetchUnchecked(disk, packageKey, result, time) ==
    cachePackageOn(disk, packageKey, "https://a.test", result.rawLlmsTxt, result.docFiles, time)

CacheAfterFetch(disk, packageKey, result, time) ==
    IF ~result.success THEN disk
    ELSE cachePackageOn(disk, packageKey, "https://a.test", result.rawLlmsTxt,
                        result.docFiles, time)

\* await fetchPackageDocs resumes: a failure is counted; a success is cached
\* and linked
InFetched ==
    /\ inPc = "fetch"
    /\ \E result \in InstallFetchResults :
        IF ~result.success
        THEN /\ inFailed' = inFailed \cup {inKeys[inIndex]}
             /\ inIndex' = inIndex + 1
             /\ inPc' = "loop"
             /\ packagesDir' = CacheAfterFetch(packagesDir, inKeys[inIndex], result, now)
             /\ UNCHANGED <<now, linkDir, linkKey, inFetched, inLinked>>
        ELSE /\ InLink([cache |-> CacheAfterFetch(packagesDir, inKeys[inIndex], result, now),
                         project |-> linkDir],
                        inKeys[inIndex], TRUE)
             /\ now' = now + 1
             /\ inFetched' = inFetched \cup {inKeys[inIndex]}
             /\ UNCHANGED inFailed
    /\ UNCHANGED <<inKeys, inForce, gitignore, besidesInstall>>

\* a run that ends by writing the keys it installed to erudita.json
InDoneSavingConfig ==
    /\ inPc = "loop"
    /\ inIndex > Len(inKeys)
    /\ gitignore' = TRUE
    /\ inPc' = "done"
    /\ btManifest' = KeySet(inKeys) \ inFailed
    /\ UNCHANGED <<packagesDir, now, linkDir, linkKey, inKeys, inForce, inIndex, inFetched,
                   inFailed, inLinked, lastCall, prevCall, lastLink, indexVars, docsVars,
                   writeVars, parserVars, mcpVars, btCmd, btItems, btForce, btAll, btPc,
                   btIndex, btCounts, btProcessed, btConfig>>

\* the loop is over: ensureGitignore(cwd), the tally is printed, run returns
InDone ==
    /\ inPc = "loop"
    /\ inIndex > Len(inKeys)
    /\ gitignore' = TRUE
    /\ inPc' = "done"
    /\ UNCHANGED <<packagesDir, now, linkDir, linkKey, inKeys, inForce, inIndex, inFetched,
                   inFailed, inLinked, besidesInstall>>

\* ------------------------------------------------------------------------
\* commands/fetch.ts, commands/update.ts, commands/install.ts with package
\* arguments: the loop over the packages
\* ------------------------------------------------------------------------

\* most packages of one run
MaxItems == 2

BatchKeys == { <<"p">>, <<"@", "s", "/", "n">> }

BatchCmds == { "fetch", "update", "install" }

\* what resolvePackageUrl resolves to: null or a URL
ResolveResults == { <<>>, <<"https://a.test">> }

NoCounts == [success |-> 0, skip |-> 0, fail |-> 0]

\* the orders in which readdirSync may list the directories of the cache
ListedNames ==
    { ks \in SeqsUpTo({ m[2].name : m \in listCached }, Cardinality(listCached)) :
        /\ Len(ks) = Cardinality(listCached)
        /\ \A i, j \in 1..Len(ks) : i # j => ks[i] # ks[j] }

\* the run starts: update --all takes the names of listCached(), a run without
\* packages prints its usage, install reads erudita.json
BtStart ==
    /\ btPc = "start"
    /\ \E items \in (IF btCmd = "update" /\ btAll THEN ListedNames ELSE {btItems}) :
        /\ btItems' = items
        /\ btPc' = IF items = <<>> THEN "usage" ELSE "loop"
    /\ btConfig' = IF btCmd = "install" THEN btManifest ELSE btConfig
    /\ UNCHANGED <<packagesDir, now, linkDir, linkKey, gitignore, btCmd, btForce, btAll,
                   btIndex, btCounts, btProcessed, btManifest, besidesBatch>>

\* a pass of the loop ends (continue, or the end of the body)
BtPass(outcome, attempted, counts) ==
    /\ btProcessed' = Append(btProcessed,
                              [key |-> btItems[btIndex], cached |-> isCached(btItems[btIndex]),
                               attempted |-> attempted, outcome |-> outcome])
    /\ btCounts' = counts
    /\ btIndex' = btIndex + 1
    /\ btPc' = "loop"

\* createPackageLink(cwd, packageKey) on fs, then the end of the pass; an
\* exception of createPackageLink leaves run
BtLinkThenPass(fs, outcome, attempted) ==
    \E made \in {createPackageLinkOn(fs, btItems[btIndex], "link")} :
        /\ packagesDir' = made.fs.cache
        /\ linkDir' = made.fs.project
        /\ linkKey' = IF made.threw THEN [x \in DOMAIN linkKey \cap DOMAIN linkDir' |-> linkKey[x]]
                       ELSE With(linkKey, LinkName(btItems[btIndex]), btItems[btIndex])
        /\ IF made.threw
           THEN btPc' = "crashed" /\ UNCHANGED <<btProcessed, btCounts, btIndex>>
           ELSE BtPass(outcome, attempted, [btCounts EXCEPT !.success = @ + 1])

\* if (!force && isCached(pkg)) of fetch and install
SkipsFetchAlways(force, cached) == cached

SkipsFetch(force, cached) == ~force /\ cached

\* the top of a pass of the loop, up to its first await or its continue
BtNext ==
    /\ btPc = "loop"
    /\ btIndex <= Len(btItems)
    /\ CASE btCmd = "fetch" ->
                IF SkipsFetch(btForce, isCached(btItems[btIndex]))
                THEN /\ BtPass("skip", FALSE, [btCounts EXCEPT !.skip = @ + 1])
                     /\ UNCHANGED <<packagesDir, linkDir, linkKey, btConfig>>
                ELSE /\ btPc' = "resolve"
                     /\ UNCHANGED <<packagesDir, linkDir, linkKey, btIndex, btCounts,
                                    btProcessed, btConfig>>
         [] btCmd = "update" ->
                IF getCachedMeta(btItems[btIndex]) = <<>>
                THEN /\ BtPass("skip", FALSE, btCounts)
                     /\ UNCHANGED <<packagesDir, linkDir, linkKey, btConfig>>
                ELSE /\ btPc' = "fetch"
                     /\ UNCHANGED <<packagesDir, linkDir, linkKey, btIndex, btCounts,
                                    btProcessed, btConfig>>
         [] btCmd = "install" ->
                IF SkipsFetch(btForce, isCached(btItems[btIndex]))
                THEN IF btItems[btIndex] \in btConfig
                     THEN /\ BtLinkThenPass(FileSystem, "link", FALSE)
                          /\ UNCHANGED btConfig
                     ELSE /\ btPc' = "resolveCached"
                          /\ UNCHANGED <<packagesDir, linkDir, linkKey, btIndex, btCounts,
                                         btProcessed, btConfig>>
                ELSE /\ btPc' = IF btItems[btIndex] \in btConfig THEN "fetch" ELSE "resolve"
                     /\ UNCHANGED <<packagesDir, linkDir, linkKey, btIndex, btCounts,
                                    btProcessed, btConfig>>
    /\ UNCHANGED <<now, gitignore, btCmd, btItems, btForce, btAll, btManifest, besidesBatch>>

\* await resolvePackageUrl resumes before the fetch
BtResolved ==
    /\ btPc = "resolve"
    /\ \E url \in ResolveResults :
        IF url = <<>>
        THEN BtPass("fail", TRUE, [btCounts EXCEPT !.fail = @ + 1])
        ELSE /\ btPc' = "fetch"
             /\ UNCHANGED <<btIndex, btCounts, btProcessed>>
    /\ UNCHANGED <<packagesDir, now, linkDir, linkKey, gitignore, btCmd, btItems, btForce,
                   btAll, btConfig, btManifest, besidesBatch>>

\* install: await resolvePackageUrl resumes for a cached package that
\* erudita.json does not name
BtResolvedCached ==
    /\ btPc = "resolveCached"
    /\ \E url \in ResolveResults :
        btConfig' = IF url = <<>> THEN btConfig ELSE btConfig \cup {btItems[btIndex]}
    /\ BtLinkThenPass(FileSystem, "link", FALSE)
    /\ UNCHANGED <<now, gitignore, btCmd, btItems, btForce, btAll, btManifest, besidesBatch>>

\* await fetchPackageDocs resumes: a failure is counted; a success is cached,
\* and by install named in the config and linked
BtFetched ==
    /\ btPc = "fetch"
    /\ \E result \in InstallFetchResults :
        IF ~result.success
        THEN /\ BtPass("fail", TRUE, [btCounts EXCEPT !.fail = @ + 1])
             /\ packagesDir' = CacheAfterFetch(packagesDir, btItems[btIndex], result, now)
             /\ UNCHANGED <<now, linkDir, linkKey, btConfig>>
        ELSE \E disk \in {CacheAfterFetch(packagesDir, btItems[btIndex], result, now)} :
                /\ now' = now + 1
                /\ IF btCmd = "install"
                   THEN /\ btConfig' = btConfig \cup {btItems[btIndex]}
                        /\ BtLinkThenPass([cache |-> disk, project |-> linkDir], "ok", TRUE)
                   ELSE /\ packagesDir' = disk
                        /\ BtPass("ok", TRUE, [btCounts EXCEPT !.success = @ + 1])
                        /\ UNCHANGED <<linkDir, linkKey, btConfig>>
    /\ UNCHANGED <<gitignore, btCmd, btItems, btForce, btAll, btManifest, besidesBatch>>

\* the loop is over: install writes erudita.json and .gitignore, and the
\* tallies are printed
BtDone ==
    /\ btPc = "loop"
    /\ btIndex > Len(btItems)
    /\ btPc' = "done"
    /\ btManifest' = IF btCmd = "install" THEN btConfig ELSE btManifest
    /\ gitignore' = IF btCmd = "install" THEN TRUE ELSE gitignore
    /\ UNCHANGED <<packagesDir, now, linkDir, linkKey, btCmd, btItems, btForce, btAll,
                   btIndex, btCounts, btProcessed, btConfig, besidesBatch>>

\* the counters the last line of the run prints
ReportedCounters ==
    IF btCmd = "fetch" THEN <<btCounts.success, btCounts.skip, btCounts.fail>>
    ELSE <<btCounts.success, btCounts.fail>>

\* ------------------------------------------------------------------------
\* lib/fetcher.ts : fetchWithRetry, tryFetchLlmsTxt, fetchLlmsTxt
\* ------------------------------------------------------------------------

MAX_RETRIES == 3

LLMS_TXT_PATHS == << <<"/", "llms.txt">>, <<"/", "llms-full.txt">> >>

\* HTTP status codes a server answers with, one of each class fetch() hands over
Statuses == {200, 304, 404, 500}

\* fetch() rejected: network failure, or the timeout aborted the request
FetchError == [kind |-> "error"]

HttpResponse(status, body) == [kind |-> "response", status |-> status, body |-> body]

\* Response.ok
ResponseOk(r) == r.status >= 200 /\ r.status <= 299

\* bodies an index URL is answered with: lines of tokens
MarkdownIndex == << <<"#", " ", "Pkg">>, <<>>, <<"-", " ", "[", "Guide", "]", "(", ".", "/", "g.md", ")">> >>

HtmlPage == << <<"<html>", "Not", " ", "here", "</html>">> >>

IndexBodies == {MarkdownIndex, HtmlPage}

IndexResponses ==
    {FetchError} \cup { HttpResponse(st, b) : st \in Statuses, b \in IndexBodies }

\* base URLs: without a path, with the root path, with a path, with a path and
\* a trailing slash
BaseUrls ==
    { <<"https://", "x.test">>,
      <<"https://", "x.test", "/">>,
      <<"https://", "x.test", "/", "docs">>,
      <<"https://", "x.test", "/", "docs", "/">> }

\* new URL(url).pathname, for a URL <<scheme, host, path tokens...>>
getUrlPath(url) == IF Len(url) <= 2 THEN <<"/">> ELSE SubSeq(url, 3, Len(url))

\* `${parsed.protocol}//${parsed.host}`
extractRootUrl(url) == SubSeq(url, 1, 2)

\* what one pass of the loop body of fetchWithRetry does with a settled fetch():
\* "response" (return response), "null" (return null), "backoff" (wait, then loop)
fetchWithRetryAlsoRetries4xx(attempt, r) ==
    IF r.kind = "response"
    THEN IF ResponseOk(r) THEN "response" ELSE "backoff"
    ELSE IF attempt = MAX_RETRIES - 1 THEN "null" ELSE "backoff"

fetchWithRetrySettled(attempt, r) ==
    IF r.kind = "response"
    THEN IF ResponseOk(r) THEN "response"
         ELSE IF r.status >= 400 /\ r.status < 500 THEN "null"
         ELSE "backoff"
    ELSE IF attempt = MAX_RETRIES - 1 THEN "null" ELSE "backoff"

\* after the backoff timer: attempt++ and the loop test attempt < retries
fetchWithRetryLoops(attempt) == attempt + 1 < MAX_RETRIES

\* content.includes('#')
IncludesHash(content) ==
    \E i \in 1..Len(content) : \E j \in 1..Len(content[i]) : content[i][j] = "#"

\* the url tryFetchLlmsTxt builds for a path
LlmsTxtUrl(base, path) ==
    IF Len(base) > 0 /\ base[Len(base)] = "/"
    THEN SubSeq(base, 1, Len(base) - 1) \o path
    ELSE base \o path

\* the base URL of the running tryFetchLlmsTxt call
IxTryBase(stage) == IF stage = "direct" THEN ixBase ELSE extractRootUrl(ixBase)

\* fetchLlmsTxt falls back to the root domain when baseUrl has a path
HasPathAlways(base) == TRUE

HasPath(base) == getUrlPath(base) # <<>> /\ getUrlPath(base) # <<"/">>

\* fetchWithRetry(url) is entered: attempt = 0 and fetch(url) is called
IxRequest(stage, path) ==
    /\ ixStage' = stage
    /\ ixPath' = path
    /\ ixAttempt' = 0
    /\ ixRequests' = Append(ixRequests, LlmsTxtUrl(IxTryBase(stage), LLMS_TXT_PATHS[path]))
    /\ ixPc' = "fetch"
    /\ UNCHANGED ixResult

\* fetchLlmsTxt returns
IxReturn(value) ==
    /\ ixResult' = value
    /\ ixPc' = "done"
    /\ UNCHANGED <<ixStage, ixPath, ixAttempt, ixRequests>>

\* the current path gave nothing: next path, then the root domain, then null
IxMiss ==
    IF ixPath < Len(LLMS_TXT_PATHS)
    THEN IxRequest(ixStage, ixPath + 1)
    ELSE IF ixStage = "direct" /\ HasPath(ixBase)
         THEN IxRequest("root", 1)
         ELSE IxReturn(<<>>)

\* fetchLlmsTxt(baseUrl) is called
IxCall ==
    /\ ixPc = "call"
    /\ IxRequest("direct", 1)
    /\ UNCHANGED <<ixBase, ixLast, besidesIndex>>

\* the fetch() awaited by fetchWithRetry settles
IxSettle ==
    /\ ixPc = "fetch"
    /\ \E r \in IndexResponses :
        /\ ixLast' = <<r>>
        /\ LET step == fetchWithRetrySettled(ixAttempt, r)
               url == ixRequests[Len(ixRequests)]
           IN  CASE step = "backoff" ->
                        /\ ixPc' = "backoff"
                        /\ UNCHANGED <<ixStage, ixPath, ixAttempt, ixRequests, ixResult>>
                 [] step = "null" -> IxMiss
                 [] step = "response" ->
                        IF IncludesHash(r.body)
                        THEN IxReturn(<< [content |-> r.body, url |-> url,
                                         pathPrefix |-> IF ixStage = "root"
                                                        THEN <<getUrlPath(ixBase)>>
                                                        ELSE <<>>] >>)
                        ELSE IxMiss
    /\ UNCHANGED <<ixBase, besidesIndex>>

\* the backoff timer of fetchWithRetry fires
IxBackoffDone ==
    /\ ixPc = "backoff"
    /\ IF fetchWithRetryLoops(ixAttempt)
       THEN /\ ixAttempt' = ixAttempt + 1
            /\ ixRequests' = Append(ixRequests, ixRequests[Len(ixRequests)])
            /\ ixPc' = "fetch"
            /\ UNCHANGED <<ixStage, ixPath, ixResult>>
       ELSE IxMiss
    /\ UNCHANGED <<ixBase, ixLast, besidesIndex>>

\* ------------------------------------------------------------------------
\* lib/llms-parser.ts
\* ------------------------------------------------------------------------

IsSpace(c) == c = " "

\* String.prototype.trim()
RECURSIVE TrimStart(_)
TrimStart(t) ==
    IF t # <<>> /\ IsSpace(t[1]) THEN TrimStart(SubSeq(t, 2, Len(t))) ELSE t

RECURSIVE TrimEnd(_)
TrimEnd(t) ==
    IF t # <<>> /\ IsSpace(t[Len(t)]) THEN TrimEnd(SubSeq(t, 1, Len(t) - 1)) ELSE t

Trim(t) == TrimEnd(TrimStart(t))

StartsWith(t, p) == Len(p) <= Len(t) /\ SubSeq(t, 1, Len(p)) = p

\* t.slice(n)
SliceFrom(t, n) == SubSeq(t, n + 1, Len(t))

\* the first index >= from at which t holds c, or 0
IndexFrom(t, c, from) ==
    LET hits == { i \in from..Len(t) : t[i] = c }
    IN  IF hits = {} THEN 0 ELSE CHOOSE x \in hits : \A y \in hits : x <= y

\* lines.join(' ')
RECURSIVE JoinSpace(_)
JoinSpace(ls) ==
    IF ls = <<>> THEN <<>>
    ELSE IF Len(ls) = 1 THEN ls[1]
    ELSE ls[1] \o <<" ">> \o JoinSpace(SubSeq(ls, 2, Len(ls)))

\* \[([^\]]+)\]\(([^)]+)\) matched in t from index p:
\* [ok, label, url, end] with end the index of the closing parenthesis
MatchLinkAt(t, p) ==
    LET close == IndexFrom(t, "]", p + 1)
        paren == IF close = 0 THEN 0 ELSE IndexFrom(t, ")", close + 2)
        ok == /\ p <= Len(t) /\ t[p] = "["
              /\ close > p + 1
              /\ close + 1 <= Len(t) /\ t[close + 1] = "("
              /\ paren > close + 2
    IN  IF ok
        THEN [ok |-> TRUE, label |-> SubSeq(t, p + 1, close - 1),
              url |-> SubSeq(t, close + 2, paren - 1), end |-> paren]
        ELSE [ok |-> FALSE, label |-> <<>>, url |-> <<>>, end |-> 0]

\* the first index >= from of t that holds no white space, Len(t) + 1 if none
RECURSIVE SkipSpaces(_, _)
SkipSpaces(t, from) ==
    IF from <= Len(t) /\ IsSpace(t[from]) THEN SkipSpaces(t, from + 1) ELSE from

NoMatch == [ok |-> FALSE, label |-> <<>>, url |-> <<>>, description |-> <<>>]

\* (?::\s*(.+))?$ after the link m of t: the end of t, or a colon, white space
\* and at least one more character (the white space gives one back when it
\* reaches the end of t)
LinkTail(t, m) ==
    IF ~m.ok THEN NoMatch
    ELSE IF m.end = Len(t)
         THEN [ok |-> TRUE, label |-> m.label, url |-> m.url, description |-> <<>>]
    ELSE IF t[m.end + 1] = ":" /\ Len(t) >= m.end + 2
         THEN LET rest == SkipSpaces(t, m.end + 2)
                  group == IF rest <= Len(t) THEN SubSeq(t, rest, Len(t))
                           ELSE SubSeq(t, Len(t), Len(t))
              IN  [ok |-> TRUE, label |-> m.label, url |-> m.url,
                   description |-> <<Trim(group)>>]
    ELSE NoMatch

\* trimmed.match(/^[-*]\s*\[([^\]]+)\]\(([^)]+)\)(?::\s*(.+))?$/)
linkMatch(t) ==
    IF t = <<>> \/ t[1] \notin {"-", "*"} THEN NoMatch
    ELSE LinkTail(t, MatchLinkAt(t, SkipSpaces(t, 2)))

\* $ after the link m of t
LinkEnd(t, m) ==
    IF m.ok /\ m.end = Len(t)
    THEN [ok |-> TRUE, label |-> m.label, url |-> m.url, description |-> <<>>]
    ELSE NoMatch

\* trimmed.match(/^\[([^\]]+)\]\(([^)]+)\)$/)
plainLinkMatch(t) == LinkEnd(t, MatchLinkAt(t, 1))

EntryTitleWithoutSection(currentSection, label) == label

\* `${currentSection} - ${label}` when a section is set
EntryTitle(currentSection, label) ==
    IF currentSection # <<>> THEN currentSection \o <<" ", "-", " ">> \o label ELSE label

\* !description
NoDescription(description) == description = <<>> \/ description[1] = <<>>

ParserStart ==
    [title |-> <<>>, description |-> <<>>, entries |-> <<>>,
     currentSection |-> <<>>, inBlockquote |-> FALSE, blockquoteLines |-> <<>>]

\* doc.entries.push({title, url, description}) for the match m
PushEntry(st, m) ==
    [st EXCEPT !.entries = Append(@,
        [title |-> EntryTitle(st.currentSection, m.label),
         url |-> m.url, description |-> m.description])]

\* the body of the loop over the lines, trimmed being line.trim()
ParseTrimmed(st, trimmed) ==
    IF StartsWith(trimmed, <<"#", " ">>)
    THEN [st EXCEPT !.title = Trim(SliceFrom(trimmed, 2))]
    ELSE IF StartsWith(trimmed, <<">">>)
    THEN [st EXCEPT !.inBlockquote = TRUE,
                    !.blockquoteLines = Append(@, Trim(SliceFrom(trimmed, 1)))]
    ELSE IF st.inBlockquote /\ trimmed = <<>>
    THEN [st EXCEPT !.description =
                        IF st.blockquoteLines # <<>> /\ NoDescription(@)
                        THEN <<JoinSpace(st.blockquoteLines)>> ELSE @,
                    !.inBlockquote = FALSE,
                    !.blockquoteLines = <<>>]
    ELSE IF StartsWith(trimmed, <<"#", "#", " ">>)
    THEN [st EXCEPT !.currentSection = Trim(SliceFrom(trimmed, 3))]
    ELSE IF linkMatch(trimmed).ok
    THEN PushEntry(st, linkMatch(trimmed))
    ELSE IF plainLinkMatch(trimmed).ok
    THEN PushEntry(st, plainLinkMatch(trimmed))
    ELSE st

\* one pass of the loop over the lines
ParseLine(st, line) == ParseTrimmed(st, Trim(line))

RECURSIVE ParseLines(_, _, _)
ParseLines(st, lines, i) ==
    IF i > Len(lines) THEN st ELSE ParseLines(ParseLine(st, lines[i]), lines, i + 1)

\* after the loop: a blockquote still open at the end of the file
ParseEnd(st) ==
    [title |-> st.title,
     description |->
        IF st.inBlockquote /\ st.blockquoteLines # <<>> /\ NoDescription(st.description)
        THEN <<JoinSpace(st.blockquoteLines)>>
        ELSE st.description,
     entries |-> st.entries]

\* content is the sequence content.split('\n')
parseLlmsTxt(content) == ParseEnd(ParseLines(ParserStart, content, 1))

IsAbsolute(url) == StartsWith(url, <<"http://">>) \/ StartsWith(url, <<"https://">>)

\* the path of base up to and including its last "/"
RECURSIVE DirOf(_)
DirOf(path) ==
    IF path = <<>> THEN <<"/">>
    ELSE IF path[Len(path)] = "/" THEN path
    ELSE DirOf(SubSeq(path, 1, Len(path) - 1))

\* new URL(relativeUrl, baseUrl).href for path-absolute and relative references
\* without ".." segments
resolveUrl(base, relativeUrl) ==
    IF IsAbsolute(relativeUrl) THEN relativeUrl
    ELSE IF StartsWith(relativeUrl, <<"/">>) THEN SubSeq(base, 1, 2) \o relativeUrl
    ELSE LET rel == IF StartsWith(relativeUrl, <<".", "/">>)
                    THEN SliceFrom(relativeUrl, 2) ELSE relativeUrl
         IN  SubSeq(base, 1, 2) \o DirOf(getUrlPath(base)) \o rel

extractDocUrls(d, base) ==
    [i \in 1..Len(d.entries) |-> resolveUrl(base, d.entries[i].url)]

\* the path of an entry URL: of an absolute URL its path component, of a
\* reference its resolution against the root of a site
EntryPath(url) ==
    IF IsAbsolute(url) THEN getUrlPath(url)
    ELSE getUrlPath(resolveUrl(<<"https://", "placeholder", "/">>, url))

PathMatchesAnyContinuation(path, prefix) == StartsWith(path, prefix)

PathMatches(path, prefix) == path = prefix \/ StartsWith(path, prefix \o <<"/">>)

RECURSIVE EntriesUnder(_, _)
EntriesUnder(entries, prefix) ==
    IF entries = <<>> THEN <<>>
    ELSE LET rest == EntriesUnder(SubSeq(entries, 2, Len(entries)), prefix)
         IN  IF PathMatches(EntryPath(entries[1].url), prefix)
             THEN <<entries[1]>> \o rest ELSE rest

filterEntriesByPath(entries, pathPrefix) ==
    EntriesUnder(entries,
                 IF pathPrefix # <<>> /\ pathPrefix[Len(pathPrefix)] = "/"
                 THEN SubSeq(pathPrefix, 1, Len(pathPrefix) - 1) ELSE pathPrefix)

\* ------------------------------------------------------------------------
\* lib/llms-parser.ts : one call of filterEntriesByPath or parseLlmsTxt
\* ------------------------------------------------------------------------

\* most entries of a filterEntriesByPath call
MaxEntries == 2

NoInput == [fn |-> "none"]

\* entry URLs: path-absolute, relative and absolute ones, under the section,
\* the section itself, a sibling whose name begins with the section's name
\* ("section" and "-extra" stand for the characters of "section-extra"), and
\* another directory
FilterUrls ==
    { <<"/", "docs", "/", "section", "/", "a.md">>,
      <<"/", "docs", "/", "section">>,
      <<"/", "docs", "/", "section", "-extra", "/", "a.md">>,
      <<"/", "docs", "/", "other", "/", "c.md">>,
      <<"docs", "/", "section", "/", "a.md">>,
      <<"https://", "example.com", "/", "docs", "/", "section", "/", "b.md">>,
      <<"https://", "example.com", "/", "docs", "/", "section", "-extra">> }

FilterEntries == { [title |-> <<"T">>, url |-> u, description |-> <<>>] : u \in FilterUrls }

FilterPrefixes ==
    { <<"/", "docs", "/", "section">>,
      <<"/", "docs", "/", "section", "/">>,
      <<"/", "docs">> }

FilterInputs ==
    { [fn |-> "filterEntriesByPath", entries |-> es, pathPrefix |-> p] :
        es \in SeqsUpTo(FilterEntries, MaxEntries), p \in FilterPrefixes }

\* doc.entries = filterEntriesByPath(doc.entries, llmsResult.pathPrefix)
CallFilterEntriesByPath ==
    /\ fnInput.fn = "filterEntriesByPath"
    /\ fnOutput = <<>>
    /\ fnOutput' = <<filterEntriesByPath(fnInput.entries, fnInput.pathPrefix)>>
    /\ UNCHANGED <<fnInput, besidesParser>>

\* most lines of the content of a parseLlmsTxt call
MaxLines == 3

LineForm(kind, indent, mark, text, label, url, description) ==
    [kind |-> kind, indent |-> indent, mark |-> mark, text |-> text,
     label |-> label, url |-> url, description |-> description]

\* the lines of the expected format and lines beside it: "h1" # text, "h2"
\* ## text, "bullet" a list item with a link and an optional description,
\* "bare" a link alone on its line, "quote" > text, "other" anything else
\* (text holds the whole line)
LineForms ==
    { LineForm("h1", <<>>, <<>>, <<"A">>, <<>>, <<>>, <<>>),
      LineForm("h1", <<>>, <<>>, <<"B">>, <<>>, <<>>, <<>>),
      LineForm("h2", <<>>, <<>>, <<"S">>, <<>>, <<>>, <<>>),
      LineForm("h2", <<" ">>, <<>>, <<"T">>, <<>>, <<>>, <<>>),
      LineForm("bullet", <<>>, <<"-", " ">>, <<>>, <<"a">>, <<"u">>, <<>>),
      LineForm("bullet", <<" ", " ">>, <<"*">>, <<>>, <<"b">>, <<"v">>, << <<"d", " ", "e">> >>),
      LineForm("bare", <<>>, <<>>, <<>>, <<"c", " ", "d">>, <<"w">>, <<>>),
      LineForm("other", <<>>, <<>>, <<>>, <<>>, <<>>, <<>>),
      LineForm("quote", <<>>, <<>>, <<"q">>, <<>>, <<>>, <<>>),
      LineForm("quote", <<" ">>, <<>>, <<"r">>, <<>>, <<>>, <<>>),
      LineForm("other", <<>>, <<>>, <<"-", " ", "[", "a", "]", "(", "u", ")", " ", "x">>,
               <<>>, <<>>, <<>>),
      LineForm("other", <<>>, <<>>, <<"-", " ", "[", "a", "]", "(", "u", ")", ":">>,
               <<>>, <<>>, <<>>),
      LineForm("other", <<>>, <<>>, <<"[", "a", "]", " ", "(", "u", ")">>, <<>>, <<>>, <<>>) }

\* [label](url)
RenderLink(f) == <<"[">> \o f.label \o <<"]", "(">> \o f.url \o <<")">>

\* the text of a line of the form f
RenderLine(f) ==
    f.indent \o
    CASE f.kind = "h1" -> <<"#", " ">> \o f.text
      [] f.kind = "h2" -> <<"#", "#", " ">> \o f.text
      [] f.kind = "bullet" ->
            f.mark \o RenderLink(f) \o
            (IF f.description = <<>> THEN <<>> ELSE <<":", " ">> \o f.description[1])
      [] f.kind = "bare" -> RenderLink(f)
      [] f.kind = "quote" -> <<">", " ">> \o f.text
      [] OTHER -> f.text

ParseInputs ==
    { [fn |-> "parseLlmsTxt", forms |-> fs,
       content |-> [i \in 1..Len(fs) |-> RenderLine(fs[i])]] :
        fs \in SeqsUpTo(LineForms, MaxLines) \ { <<>> } }

\* doc = parseLlmsTxt(content)
CallParseLlmsTxt ==
    /\ fnInput.fn = "parseLlmsTxt"
    /\ fnOutput = <<>>
    /\ fnOutput' = <<parseLlmsTxt(fnInput.content)>>
    /\ UNCHANGED <<fnInput, besidesParser>>

\* urlObj.pathname.split('/').pop() || 'doc.md'
FilenameOfUrl(url) ==
    LET path == getUrlPath(url)
        slashes == { i \in 1..Len(path) : path[i] = "/" }
        last == CHOOSE x \in slashes : \A y \in slashes : y <= x
        segment == SubSeq(path, last + 1, Len(path))
    IN  IF segment = <<>> THEN <<"doc.md">> ELSE segment

\* ------------------------------------------------------------------------
\* lib/npm.ts : fetchNpmMeta, extractWebsiteUrl, resolvePackageUrl
\* ------------------------------------------------------------------------

\* the homepage field of a registry document
Homepages ==
    { <<"https://", "test.com">>,
      <<"https://", "test.com", "/">>,
      <<"http://", "test.com">>,
      <<" ", "https://", "test.com", "/", "docs", " ">>,
      <<"test.com">>,
      <<"https://", "test.com", "/", "/">>,
      <<" ">>,
      <<>> }

\* the repository.url field of a registry document
RepositoryUrls ==
    { <<"git+", "https://", "github.com", "/", "user", "/", "repo", ".git">>,
      <<"git://", "github.com", "/", "user", "/", "repo", ".git">>,
      <<"git@", "github.com", ":", "user", "/", "repo", ".git">>,
      <<"https://", "github.com", "/", "user", "/", "repo", "/">>,
      <<"ssh://", "git@", "github.com", "/", "user", "/", "repo", ".git">>,
      <<"git@", "github.com">>,
      <<"user", "/", "repo">> }

\* what the registry answers: the request fails, a status that is not ok, or
\* a document (an optional field is a sequence of length 0 or 1)
RegistryResponses ==
    { [kind |-> "error", homepage |-> <<>>, repositoryUrl |-> <<>>],
      [kind |-> "notOk", homepage |-> <<>>, repositoryUrl |-> <<>>] } \cup
    { [kind |-> "ok", homepage |-> h, repositoryUrl |-> r] :
        h \in { <<>> } \cup { <<x>> : x \in Homepages },
        r \in { <<>> } \cup { <<x>> : x \in RepositoryUrls } }

ResolveInputs ==
    { [fn |-> "resolvePackageUrl", packageName |-> n, response |-> r] :
        n \in { <<"pinia">>, <<"@", "vue", "/", "compiler-sfc">> }, r \in RegistryResponses }

EndsWith(t, p) == Len(p) <= Len(t) /\ SubSeq(t, Len(t) - Len(p) + 1, Len(t)) = p

\* the meta of fetchNpmMeta, none for null
fetchNpmMeta(response) == IF response.kind = "ok" THEN <<response>> ELSE <<>>

normalizeUrl(url) ==
    LET trimmed == Trim(url)
        upgraded == IF StartsWith(trimmed, <<"http://">>)
                    THEN <<"https://">> \o SliceFrom(trimmed, 1) ELSE trimmed
    IN  IF EndsWith(upgraded, <<"/">>) THEN SubSeq(upgraded, 1, Len(upgraded) - 1)
        ELSE upgraded

\* url.match(/git@([^:]+):(.+)/) for a url that starts with git@, rewritten
\* as `https://${match[1]}/${match[2]}` when it matches
SshToHttps(url) ==
    LET colon == IndexFrom(url, ":", 2)
    IN  IF colon > 2 /\ colon < Len(url)
        THEN <<"https://">> \o SubSeq(url, 2, colon - 1) \o <<"/">> \o SliceFrom(url, colon)
        ELSE url

UrlSchemes == { "https://", "http://", "ssh://", "git://" }

\* new URL(url) does not throw
IsValidUrl(url) == Len(url) >= 2 /\ url[1] \in UrlSchemes /\ url[2] \notin {"/", " "}

\* the website of a repository URL, none for null
repoUrlToWebsite(repoUrl) ==
    LET trimmed == Trim(repoUrl)
        plain == IF StartsWith(trimmed, <<"git+">>) THEN SliceFrom(trimmed, 1) ELSE trimmed
        https == IF StartsWith(plain, <<"git://">>)
                 THEN <<"https://">> \o SliceFrom(plain, 1) ELSE plain
        web == IF StartsWith(https, <<"git@">>) THEN SshToHttps(https) ELSE https
        url == IF EndsWith(web, <<".git">>) THEN SubSeq(web, 1, Len(web) - 1) ELSE web
    IN  IF IsValidUrl(url) THEN <<normalizeUrl(url)>> ELSE <<>>

\* none for null; an empty homepage is falsy
extractWebsiteUrl(meta) ==
    IF meta.homepage # <<>> /\ meta.homepage[1] # <<>>
    THEN <<normalizeUrl(meta.homepage[1])>>
    ELSE IF meta.repositoryUrl # <<>> /\ meta.repositoryUrl[1] # <<>>
    THEN repoUrlToWebsite(meta.repositoryUrl[1])
    ELSE <<>>

resolvePackageUrl(response) ==
    IF fetchNpmMeta(response) = <<>> THEN <<>>
    ELSE extractWebsiteUrl(fetchNpmMeta(response)[1])

\* await resolvePackageUrl(packageName), the registry answering response
CallResolvePackageUrl ==
    /\ fnInput.fn = "resolvePackageUrl"
    /\ fnOutput = <<>>
    /\ fnOutput' = <<resolvePackageUrl(fnInput.response)>>
    /\ UNCHANGED <<fnInput, besidesParser>>

\* ------------------------------------------------------------------------
\* lib/project.ts : parsePackageKey
\* ------------------------------------------------------------------------

\* most characters of a package key
MaxKeyLen == 4

\* "a" stands for the characters of a name, "1" for those of a version
KeyChars == { "@", "/", "a", "1" }

KeyInputs ==
    { [fn |-> "parsePackageKey", key |-> k] : k \in SeqsUpTo(KeyChars, MaxKeyLen) \ { <<>> } }

\* version is none for null
parsePackageKey(key) ==
    IF StartsWith(key, <<"@">>)
    THEN LET slashIndex == IndexFrom(key, "/", 1)
             atIndex == IF slashIndex = 0 THEN 0 ELSE IndexFrom(key, "@", slashIndex + 1)
         IN  IF atIndex # 0
             THEN [name |-> SubSeq(key, 1, atIndex - 1),
                   version |-> <<SliceFrom(key, atIndex)>>]
             ELSE [name |-> key, version |-> <<>>]
    ELSE LET atIndex == IndexFrom(key, "@", 1)
         IN  IF atIndex # 0
             THEN [name |-> SubSeq(key, 1, atIndex - 1),
                   version |-> <<SliceFrom(key, atIndex)>>]
             ELSE [name |-> key, version |-> <<>>]

\* parsePackageKey(key)
CallParsePackageKey ==
    /\ fnInput.fn = "parsePackageKey"
    /\ fnOutput = <<>>
    /\ fnOutput' = <<parsePackageKey(fnInput.key)>>
    /\ UNCHANGED <<fnInput, besidesParser>>

\* ------------------------------------------------------------------------
\* lib/cache.ts : getCachedMeta, listCached ; lib/project.ts :
\* readProjectConfig, getOrCreateProjectConfig, reading files that anything
\* may have written
\* ------------------------------------------------------------------------

\* what a JSON file holds: no file, a JSON document, a document cut short, an
\* empty file, text that is no JSON
FileKinds == { "absent", "json", "truncated", "empty", "garbage" }

JsonFile(kind, value) == [kind |-> kind, value |-> IF kind = "json" THEN <<value>> ELSE <<>>]

\* the directories of <cache-root>/packages
CacheDirs == { getPackageCacheDir(k) : k \in { <<"p">>, <<"@", "s", "/", "n">> } }

\* the meta.json cachePackage writes into dir
MetaOfDir(dir) ==
    [name |-> ReplaceFirst(dir, <<"_", "_">>, <<"/">>), sourceUrl |-> "https://a.test",
     fetchedAt |-> 1]

\* directory -> its meta.json, for every set of directories
MetaFiles ==
    UNION { { [d \in dirs |-> JsonFile(kind[d], MetaOfDir(d))] : kind \in [dirs -> FileKinds] } :
            dirs \in SUBSET CacheDirs }

\* erudita.json
ManifestFiles ==
    { JsonFile(kind, [packages |-> ks]) :
        kind \in FileKinds, ks \in { {}, { <<"p">> } } }

ReadFns == { "getCachedMeta", "listCached", "readProjectConfig", "getOrCreateProjectConfig" }

ReadInputs ==
    { [fn |-> f, packageName |-> k, metaFiles |-> m, manifest |-> c] :
        f \in ReadFns, k \in { <<"p">>, <<"@", "s", "/", "n">> },
        m \in MetaFiles, c \in ManifestFiles }

\* the outcome of a call: it returns value (none for null) or throws
Returns(value) == [threw |-> FALSE, value |-> value]

Throws == [threw |-> TRUE, value |-> <<>>]

\* JSON.parse(readFileSync(path, 'utf-8')) of a file that exists
JsonParse(file) == IF file.kind = "json" THEN Returns(file.value) ELSE Throws

\* try { return body } catch { return null }
OrNull(body) == IF body.threw THEN Returns(<<>>) ELSE body

getCachedMetaUncaught(files, packageName) ==
    IF getPackageDir(packageName) \notin DOMAIN files
       \/ files[getPackageDir(packageName)].kind = "absent"
    THEN Returns(<<>>)
    ELSE JsonParse(files[getPackageDir(packageName)])

getCachedMetaOfFiles(files, packageName) ==
    IF getPackageDir(packageName) \notin DOMAIN files
       \/ files[getPackageDir(packageName)].kind = "absent"
    THEN Returns(<<>>)
    ELSE OrNull(JsonParse(files[getPackageDir(packageName)]))

\* the loop over dirs pushes each meta that is not null; a call that throws
\* ends it
listCachedOfFiles(files) ==
    LET meta(dir) == getCachedMetaOfFiles(files, ReplaceFirst(dir, <<"_", "_">>, <<"/">>))
    IN  IF \E dir \in DOMAIN files : meta(dir).threw THEN Throws
        ELSE Returns({ meta(dir).value[1] : dir \in { d \in DOMAIN files : meta(d).value # <<>> } })

readProjectConfig(file) ==
    IF file.kind = "absent" THEN Returns(<<>>) ELSE OrNull(JsonParse(file))

getOrCreateProjectConfig(file) ==
    IF readProjectConfig(file).threw THEN Throws
    ELSE IF readProjectConfig(file).value # <<>> THEN readProjectConfig(file)
    ELSE Returns(<<[packages |-> {}]>>)

CallGetCachedMeta ==
    /\ fnInput.fn = "getCachedMeta"
    /\ fnOutput = <<>>
    /\ fnOutput' = <<getCachedMetaOfFiles(fnInput.metaFiles, fnInput.packageName)>>
    /\ UNCHANGED <<fnInput, besidesParser>>

CallListCached ==
    /\ fnInput.fn = "listCached"
    /\ fnOutput = <<>>
    /\ fnOutput' = <<listCachedOfFiles(fnInput.metaFiles)>>
    /\ UNCHANGED <<fnInput, besidesParser>>

CallReadProjectConfig ==
    /\ fnInput.fn = "readProjectConfig"
    /\ fnOutput = <<>>
    /\ fnOutput' = <<readProjectConfig(fnInput.manifest)>>
    /\ UNCHANGED <<fnInput, besidesParser>>

CallGetOrCreateProjectConfig ==
    /\ fnInput.fn = "getOrCreateProjectConfig"
    /\ fnOutput = <<>>
    /\ fnOutput' = <<getOrCreateProjectConfig(fnInput.manifest)>>
    /\ UNCHANGED <<fnInput, besidesParser>>

\* ------------------------------------------------------------------------
\* packages/mcp-server : DocumentationManager, the tools update_documentation
\* and get_documentation
\* ------------------------------------------------------------------------

McpPackageNames == { <<"vue">>, <<"pinia">> }

\* the optional version argument, none for undefined
McpVersions == { <<>>, << <<"latest">> >>, << <<"3">> >> }

\* the path argument: the two paths updateDocumentation stores, one it does
\* not, and a property every object inherits
McpPaths == { "index.md", "api.md", "guide.md", "constructor" }

\* the properties of Object.prototype among McpPaths
ObjectPrototypeNames == { "constructor" }

\* version ? `${packageName}@${version}` : packageName
getPackageKey(packageName, version) ==
    IF version # <<>> /\ version[1] # <<>> THEN packageName \o <<"@">> \o version[1]
    ELSE packageName

\* the content record updateDocumentation builds
MockContent(packageName) ==
    [path \in {"index.md", "api.md"} |-> <<path, "for">> \o packageName]

\* this.cache.set(packageKey, cacheEntry) of saveToCache(packageName, version || 'latest', ..)
updateDocumentationOn(cache, packageName, version) ==
    LET key == getPackageKey(packageName,
                             IF version # <<>> /\ version[1] # <<>> THEN version
                             ELSE << <<"latest">> >>)
    IN  [k \in DOMAIN cache \cup {key} |->
            IF k = key
            THEN [info |-> [name |-> packageName,
                            version |-> IF version # <<>> /\ version[1] # <<>>
                                        THEN version[1] ELSE <<"latest">>],
                  content |-> MockContent(packageName)]
            ELSE cache[k]]

\* Array.from(this.cache.values()).map((entry) => entry.info), as the bag of
\* its entries
listDocumentation(cache) ==
    [i \in { cache[k].info : k \in DOMAIN cache } |->
        Cardinality({ k \in DOMAIN cache : cache[k].info = i })]

\* content[docPath]: an own property, a property of Object.prototype, or undefined
Property(content, docPath) ==
    IF docPath \in DOMAIN content THEN [kind |-> "string", value |-> content[docPath]]
    ELSE IF docPath \in ObjectPrototypeNames THEN [kind |-> "function", value |-> <<>>]
    ELSE [kind |-> "undefined", value |-> <<>>]

\* the outcome of getDocumentation: it throws, or returns content[docPath]
getDocumentation(cache, packageName, version, docPath) ==
    LET packageKey == getPackageKey(packageName, version)
    IN  IF packageKey \notin DOMAIN cache
        THEN [threw |-> TRUE, content |-> Property(<<>>, "")]
        ELSE IF Property(cache[packageKey].content, docPath).kind = "undefined"
        THEN [threw |-> TRUE, content |-> Property(<<>>, "")]
        ELSE [threw |-> FALSE, content |-> Property(cache[packageKey].content, docPath)]

\* the tool update_documentation
UpdateDocumentation ==
    /\ \E n \in McpPackageNames, v \in McpVersions :
        /\ docCache' = updateDocumentationOn(docCache, n, v)
        /\ toolCall' = [op |-> "update_documentation", packageName |-> n, version |-> v]
    /\ UNCHANGED besidesMcp

\* the tool get_documentation: the handler throws when getDocumentation does
GetDocumentation ==
    /\ \E n \in McpPackageNames, v \in McpVersions, path \in McpPaths :
        toolCall' = [op |-> "get_documentation", packageName |-> n, version |-> v,
                     path |-> path, result |-> getDocumentation(docCache, n, v, path)]
    /\ UNCHANGED <<docCache, besidesMcp>>

\* ------------------------------------------------------------------------
\* lib/fetcher.ts : fetchDocFile, fetchPackageDocs ; lib/async-pool.ts
\* ------------------------------------------------------------------------

\* largest options.concurrency
MaxConcurrency == 2

\* index texts: the spec's example; three documents, two of them with the same
\* last path segment and one served empty; entries without a title; neither
\* title nor entries; a title alone
IndexGuide == MarkdownIndex

IndexSameName ==
    << <<"#", " ", "Pkg">>,
       <<"#", "#", " ", "Api">>,
       <<"-", " ", "[", "A", "]", "(", "/", "docs", "/", "a", "/", "i.md", ")", ":", " ", "first">>,
       <<"*", " ", "[", "B", "]", "(", "/", "docs", "/", "b", "/", "i.md", ")">>,
       <<"[", "E", "]", "(", "/", "docs", "/", "empty.md", ")">> >>

IndexUntitled ==
    << <<"#", "#", " ", "Guide">>,
       <<"-", " ", "[", "A", "]", "(", "/", "docs", "/", "a.md", ")">>,
       <<"-", " ", "[", "O", "]", "(", "other", "/", "o.md", ")">> >>

IndexNothing == << <<"#", "nothing">>, <<"text">> >>

IndexTitleOnly == << <<"#", " ", "Pkg">> >>

IndexContents == {IndexGuide, IndexSameName, IndexUntitled, IndexNothing, IndexTitleOnly}

DocBaseUrls ==
    { <<"https://", "x.test">>,
      <<"https://", "x.test", "/", "docs">> }

\* the text a document URL is served with: its own URL, or nothing
DocServer(url) == IF FilenameOfUrl(url) = <<"empty.md">> THEN <<>> ELSE url

DocResponses(url) ==
    {FetchError} \cup { HttpResponse(st, DocServer(url)) : st \in Statuses }

\* the values fetchLlmsTxt(base) can return: null, an accepted text found at a
\* path of the base URL, or one found at the root domain with the path prefix
LlmsResults(base) ==
    {<<>>}
    \cup { << [content |-> c, url |-> LlmsTxtUrl(base, LLMS_TXT_PATHS[p]), pathPrefix |-> <<>>] >> :
            c \in { x \in IndexContents : IncludesHash(x) }, p \in 1..Len(LLMS_TXT_PATHS) }
    \cup { << [content |-> c, url |-> LlmsTxtUrl(extractRootUrl(base), LLMS_TXT_PATHS[p]),
               pathPrefix |-> <<getUrlPath(base)>>] >> :
            c \in { x \in IndexContents : HasPath(base) /\ IncludesHash(x) },
            p \in 1..Len(LLMS_TXT_PATHS) }

\* docFiles.set(filename, content)
MapSet(m, k, v) ==
    IF \E i \in 1..Len(m) : m[i][1] = k
    THEN [i \in 1..Len(m) |-> IF m[i][1] = k THEN <<k, v>> ELSE m[i]]
    ELSE Append(m, <<k, v>>)

\* !doc.title && doc.entries.length === 0
InvalidFormatWithoutEntries(d) == d.entries = <<>>

InvalidFormat(d) == d.title = <<>> /\ d.entries = <<>>

\* executing.size >= concurrency
PoolMustWaitAbove(size, limit) == size > limit

PoolMustWait(size, limit) == size >= limit

\* Promise.all(executing) has settled
AllSettledAtOnce(running) == TRUE

AllSettled(running) == running = {}

\* errors++ in the else branch of the pool callback
ErrorsAfterUncounted(n, content) == n

ErrorsAfter(n, content) == IF content # <<>> /\ content[1] # <<>> THEN n ELSE n + 1

\* completed++ in the then branch of the pool callback
CompletedAfter(n, content) == IF content # <<>> /\ content[1] # <<>> THEN n + 1 ELSE n

\* docFiles.set(filename, content) in the then branch of the pool callback
DocFilesAfter(m, url, content) ==
    IF content # <<>> /\ content[1] # <<>>
    THEN MapSet(m, FilenameOfUrl(url), content[1])
    ELSE m

Failure(message) ==
    [success |-> FALSE, doc |-> <<>>, rawLlmsTxt |-> <<>>, docFiles |-> <<>>,
     error |-> <<message>>]

NoTasks == [i \in {} |-> "idle"]

NoProgress == [phase |-> "none", total |-> 0, completed |-> 0, errors |-> 0]

\* fetchPackageDocs(baseUrl, {concurrency}) is called
FetchCall ==
    /\ pc = "call"
    /\ progress' = [phase |-> "llms-txt", total |-> 1, completed |-> 0, errors |-> 0]
    /\ pc' = "index"
    /\ UNCHANGED <<baseUrl, concurrency, llmsResult, doc, docUrls, docFiles, completed,
                   errors, poolIndex, executing, raceSettled, taskPc, taskAttempt,
                   fetched, fdResult, progressCount, besidesDocs>>

\* doc.entries = filterEntriesByPath(doc.entries, pathPrefix) when a path
\* prefix came with the index
FilterByPrefix(d, pathPrefix) ==
    IF pathPrefix # <<>>
    THEN [d EXCEPT !.entries = filterEntriesByPath(@, pathPrefix[1])]
    ELSE d

\* await fetchLlmsTxt(baseUrl) resumes: parse, filter, validate, extractDocUrls
FetchIndex ==
    /\ pc = "index"
    /\ \E r \in LlmsResults(baseUrl) :
        /\ llmsResult' = r
        /\ IF r = <<>>
           THEN /\ fdResult' = <<Failure("Could not find llms.txt")>>
                /\ pc' = "done"
                /\ UNCHANGED <<doc, docUrls, taskPc, taskAttempt, fetched>>
           ELSE \E filtered \in {FilterByPrefix(parseLlmsTxt(r[1].content), r[1].pathPrefix)} :
                    IF r[1].pathPrefix # <<>> /\ filtered.entries = <<>>
                    THEN /\ fdResult' = <<Failure("No documentation found for path")>>
                         /\ pc' = "done"
                         /\ UNCHANGED <<doc, docUrls, taskPc, taskAttempt, fetched>>
                    ELSE IF InvalidFormat(filtered)
                    THEN /\ fdResult' = <<Failure("Invalid llms.txt format")>>
                         /\ pc' = "done"
                         /\ UNCHANGED <<doc, docUrls, taskPc, taskAttempt, fetched>>
                    ELSE /\ doc' = <<filtered>>
                         /\ docUrls' = extractDocUrls(filtered, r[1].url)
                         /\ taskPc' = [i \in 1..Len(filtered.entries) |-> "idle"]
                         /\ taskAttempt' = [i \in 1..Len(filtered.entries) |-> 0]
                         /\ fetched' = [i \in 1..Len(filtered.entries) |-> "none"]
                         /\ pc' = "pool_loop"
                         /\ UNCHANGED fdResult
    /\ UNCHANGED <<baseUrl, concurrency, docFiles, completed, errors, poolIndex,
                   executing, raceSettled, progressVars, besidesDocs>>

\* one pass of the for loop of asyncPool: fn(item) runs up to its first await
\* (fetch is called), the promise joins executing, the loop awaits the race
\* when the pool is full
PoolStart ==
    /\ pc = "pool_loop"
    /\ poolIndex < Len(docUrls)
    /\ poolIndex' = poolIndex + 1
    /\ taskPc' = [taskPc EXCEPT ![poolIndex + 1] = "fetch"]
    /\ executing' = executing \cup {poolIndex + 1}
    /\ pc' = IF PoolMustWait(Cardinality(executing'), concurrency)
             THEN "pool_race" ELSE "pool_loop"
    /\ raceSettled' = FALSE
    /\ UNCHANGED <<baseUrl, concurrency, llmsResult, doc, docUrls, docFiles, completed,
                   errors, taskAttempt, fetched, fdResult, progressVars, besidesDocs>>

\* await Promise.race(executing) resumes
PoolResume ==
    /\ pc = "pool_race"
    /\ raceSettled
    /\ pc' = "pool_loop"
    /\ raceSettled' = FALSE
    /\ UNCHANGED <<baseUrl, concurrency, llmsResult, doc, docUrls, docFiles, completed,
                   errors, poolIndex, executing, taskPc, taskAttempt, fetched, fdResult,
                   progressVars, besidesDocs>>

\* the loop is over: await Promise.all(executing)
PoolAwaitAll ==
    /\ pc = "pool_loop"
    /\ poolIndex = Len(docUrls)
    /\ pc' = "pool_all"
    /\ UNCHANGED <<baseUrl, concurrency, llmsResult, doc, docUrls, docFiles, completed,
                   errors, poolIndex, executing, raceSettled, taskPc, taskAttempt, fetched,
                   fdResult, progressVars, besidesDocs>>

\* Promise.all(executing) resumes: asyncPool returns, fetchPackageDocs returns
PoolReturn ==
    /\ pc = "pool_all"
    /\ AllSettled(executing)
    /\ pc' = "done"
    /\ fdResult' = << [success |-> TRUE, doc |-> doc, rawLlmsTxt |-> <<llmsResult[1].content>>,
                       docFiles |-> <<docFiles>>, error |-> <<>>] >>
    /\ UNCHANGED <<baseUrl, concurrency, llmsResult, doc, docUrls, docFiles, completed,
                   errors, poolIndex, executing, raceSettled, taskPc, taskAttempt, fetched,
                   progressVars, besidesDocs>>

\* fetchDocFile(url) of item i returns content (null: <<>>): the pool callback
\* counts it, then the promise leaves executing
TaskReturns(i, content) ==
    /\ docFiles' = DocFilesAfter(docFiles, docUrls[i], content)
    /\ completed' = CompletedAfter(completed, content)
    /\ errors' = ErrorsAfter(errors, content)
    /\ fetched' = [fetched EXCEPT ![i] =
                      IF content = <<>> THEN "null"
                      ELSE IF content[1] = <<>> THEN "empty" ELSE "content"]
    /\ taskPc' = [taskPc EXCEPT ![i] = "done"]
    /\ executing' = executing \ {i}
    /\ progress' = [phase |-> "docs", total |-> Len(docUrls),
                    completed |-> completed', errors |-> errors']
    /\ progressCount' = progressCount + 1
    /\ raceSettled' = (raceSettled \/ pc = "pool_race")
    /\ UNCHANGED taskAttempt

\* the fetch() of item i settles
TaskSettle ==
    /\ \E i \in DOMAIN taskPc :
        /\ taskPc[i] = "fetch"
        /\ \E r \in DocResponses(docUrls[i]) :
            LET step == fetchWithRetrySettled(taskAttempt[i], r)
            IN  CASE step = "backoff" ->
                        /\ taskPc' = [taskPc EXCEPT ![i] = "backoff"]
                        /\ UNCHANGED <<docFiles, completed, errors, fetched, executing,
                                       raceSettled, taskAttempt, progressVars>>
                  [] step = "null" -> TaskReturns(i, <<>>)
                  [] step = "response" -> TaskReturns(i, <<r.body>>)
    /\ UNCHANGED <<baseUrl, concurrency, pc, llmsResult, doc, docUrls, poolIndex, fdResult,
                   besidesDocs>>

\* the backoff timer of item i fires
TaskBackoffDone ==
    /\ \E i \in DOMAIN taskPc :
        /\ taskPc[i] = "backoff"
        /\ IF fetchWithRetryLoops(taskAttempt[i])
           THEN /\ taskAttempt' = [taskAttempt EXCEPT ![i] = @ + 1]
                /\ taskPc' = [taskPc EXCEPT ![i] = "fetch"]
                /\ UNCHANGED <<docFiles, completed, errors, fetched, executing, raceSettled,
                               progressVars>>
           ELSE TaskReturns(i, <<>>)
    /\ UNCHANGED <<baseUrl, concurrency, pc, llmsResult, doc, docUrls, poolIndex, fdResult,
                   besidesDocs>>

\* ------------------------------------------------------------------------
\* Specifications
\* ------------------------------------------------------------------------

CacheIdle ==
    /\ packagesDir = NoEntries
    /\ now = 1
    /\ lastCall = NoCall
    /\ prevCall = NoCall

IndexIdle ==
    /\ ixBase = <<>>
    /\ ixPc = "idle"
    /\ ixStage = "direct"
    /\ ixPath = 1
    /\ ixAttempt = 0
    /\ ixRequests = <<>>
    /\ ixLast = <<>>
    /\ ixResult = <<>>

DocsIdle ==
    /\ baseUrl = <<>>
    /\ concurrency = 1
    /\ pc = "idle"
    /\ llmsResult = <<>>
    /\ doc = <<>>
    /\ docUrls = <<>>
    /\ docFiles = <<>>
    /\ completed = 0
    /\ errors = 0
    /\ poolIndex = 0
    /\ executing = {}
    /\ raceSettled = FALSE
    /\ taskPc = NoTasks
    /\ taskAttempt = NoTasks
    /\ fetched = NoTasks
    /\ fdResult = <<>>
    /\ progress = NoProgress
    /\ progressCount = 0

WriteIdle ==
    /\ wrPc = "idle"
    /\ wrCall = NoCall
    /\ wrFile = 1
    /\ llmsBy = NoEntries

LinkIdle ==
    /\ linkDir = NoEntries
    /\ linkKey = NoEntries
    /\ lastLink = NoLink

InstallIdle ==
    /\ inPc = "idle"
    /\ inKeys = <<>>
    /\ inForce = FALSE
    /\ inIndex = 1
    /\ inFetched = {}
    /\ inFailed = {}
    /\ inLinked = {}
    /\ gitignore = FALSE

ParserIdle ==
    /\ fnInput = NoInput
    /\ fnOutput = <<>>

McpIdle ==
    /\ docCache = NoEntries
    /\ toolCall = NoCall

BatchIdle ==
    /\ btCmd = "none"
    /\ btItems = <<>>
    /\ btForce = FALSE
    /\ btAll = FALSE
    /\ btPc = "idle"
    /\ btIndex = 1
    /\ btCounts = NoCounts
    /\ btProcessed = <<>>
    /\ btConfig = {}
    /\ btManifest = {}

InitCache ==
    /\ packagesDir = NoEntries
    /\ now = 1
    /\ lastCall = NoCall
    /\ prevCall = NoCall

InitIndex ==
    /\ ixBase \in BaseUrls
    /\ ixPc = "call"
    /\ ixStage = "direct"
    /\ ixPath = 1
    /\ ixAttempt = 0
    /\ ixRequests = <<>>
    /\ ixLast = <<>>
    /\ ixResult = <<>>
    /\ CacheIdle
    /\ DocsIdle
    /\ WriteIdle
    /\ LinkIdle
    /\ InstallIdle
    /\ ParserIdle
    /\ McpIdle
    /\ BatchIdle

NextIndex == IxCall \/ IxSettle \/ IxBackoffDone

SpecIndex == InitIndex /\ [][NextIndex]_vars

InitDocs ==
    /\ baseUrl \in DocBaseUrls
    /\ concurrency \in 1..MaxConcurrency
    /\ pc = "call"
    /\ llmsResult = <<>>
    /\ doc = <<>>
    /\ docUrls = <<>>
    /\ docFiles = <<>>
    /\ completed = 0
    /\ errors = 0
    /\ poolIndex = 0
    /\ executing = {}
    /\ raceSettled = FALSE
    /\ taskPc = NoTasks
    /\ taskAttempt = NoTasks
    /\ fetched = NoTasks
    /\ fdResult = <<>>
    /\ progress = NoProgress
    /\ progressCount = 0
    /\ CacheIdle
    /\ IndexIdle
    /\ WriteIdle
    /\ LinkIdle
    /\ InstallIdle
    /\ ParserIdle
    /\ McpIdle
    /\ BatchIdle

NextDocs ==
    \/ FetchCall
    \/ FetchIndex
    \/ PoolStart
    \/ PoolResume
    \/ PoolAwaitAll
    \/ PoolReturn
    \/ TaskSettle
    \/ TaskBackoffDone

SpecDocs == InitDocs /\ [][NextDocs]_vars

\* every fetch and every timer settles, and the event loop runs what is ready
FairSpecDocs ==
    /\ SpecDocs
    /\ WF_vars(FetchCall)
    /\ WF_vars(FetchIndex)
    /\ WF_vars(PoolStart)
    /\ WF_vars(PoolResume)
    /\ WF_vars(PoolAwaitAll)
    /\ WF_vars(PoolReturn)
    /\ WF_vars(TaskSettle)
    /\ WF_vars(TaskBackoffDone)

Init == InitCache /\ IndexIdle /\ DocsIdle /\ WriteIdle /\ LinkIdle /\ InstallIdle
    /\ ParserIdle
    /\ McpIdle
    /\ BatchIdle

InitWrite == CacheIdle /\ IndexIdle /\ DocsIdle /\ WriteIdle /\ LinkIdle /\ InstallIdle
    /\ ParserIdle
    /\ McpIdle
    /\ BatchIdle

InitLinks == CacheIdle /\ IndexIdle /\ DocsIdle /\ WriteIdle /\ LinkIdle /\ InstallIdle
    /\ ParserIdle
    /\ McpIdle
    /\ BatchIdle

\* an install run starts in a project whose cache and links earlier runs left
InitInstall ==
    /\ \E cached \in SUBSET LinkKeys : packagesDir = CacheOf(NoEntries, cached)
    /\ \E linked \in SUBSET LinkKeys :
        /\ linkDir = LinksOf(NoEntries, linked)
        /\ linkKey = [e \in { LinkName(k) : k \in linked } |->
                        CHOOSE k \in linked : LinkName(k) = e]
    /\ now = 1
    /\ lastCall = NoCall
    /\ prevCall = NoCall
    /\ lastLink = NoLink
    /\ inPc = "start"
    /\ inKeys \in ManifestKeys
    /\ inForce \in BOOLEAN
    /\ inIndex = 1
    /\ inFetched = {}
    /\ inFailed = {}
    /\ inLinked = {}
    /\ gitignore = FALSE
    /\ IndexIdle
    /\ DocsIdle
    /\ WriteIdle
    /\ ParserIdle
    /\ McpIdle
    /\ btCmd = "none"
    /\ btItems = <<>>
    /\ btForce = FALSE
    /\ btAll = FALSE
    /\ btPc = "idle"
    /\ btIndex = 1
    /\ btCounts = NoCounts
    /\ btProcessed = <<>>
    /\ btConfig = {}
    /\ btManifest = KeySet(inKeys)

InitFilter ==
    /\ fnInput \in FilterInputs
    /\ fnOutput = <<>>
    /\ CacheIdle /\ IndexIdle /\ DocsIdle /\ WriteIdle /\ LinkIdle /\ InstallIdle
    /\ McpIdle
    /\ BatchIdle

NextFilter == CallFilterEntriesByPath

SpecFilter == InitFilter /\ [][NextFilter]_vars

\* the index documents of a root-domain fallback: their URL, their entries and
\* the path prefix that came with them
RootIndexUrls ==
    { <<"https://", "example.com", "/", "llms.txt">>,
      <<"https://", "x.test", "/", "llms.txt">> }

RootFilterInputs ==
    { [fn |-> "fetchPackageDocs", url |-> u, entries |-> es, pathPrefix |-> p] :
        u \in RootIndexUrls, es \in SeqsUpTo(FilterEntries, MaxEntries),
        p \in FilterPrefixes }

\* fetchPackageDocs from "Filter entries by path prefix if fetched from root
\* domain" on: the entries kept, or the failure naming the prefix
CallFilterByPrefix ==
    /\ fnInput.fn = "fetchPackageDocs"
    /\ fnOutput = <<>>
    /\ \E filtered \in {FilterByPrefix([title |-> <<"Pkg">>, description |-> <<>>,
                                        entries |-> fnInput.entries],
                                       <<fnInput.pathPrefix>>)} :
        fnOutput' = IF filtered.entries = <<>>
                    THEN <<Failure("No documentation found for path")>>
                    ELSE <<[success |-> TRUE, entries |-> filtered.entries]>>
    /\ UNCHANGED <<fnInput, besidesParser>>

InitRootFilter ==
    /\ fnInput \in RootFilterInputs
    /\ fnOutput = <<>>
    /\ CacheIdle /\ IndexIdle /\ DocsIdle /\ WriteIdle /\ LinkIdle /\ InstallIdle
    /\ McpIdle
    /\ BatchIdle

NextRootFilter == CallFilterByPrefix

SpecRootFilter == InitRootFilter /\ [][NextRootFilter]_vars

InitParse ==
    /\ fnInput \in ParseInputs
    /\ fnOutput = <<>>
    /\ CacheIdle /\ IndexIdle /\ DocsIdle /\ WriteIdle /\ LinkIdle /\ InstallIdle
    /\ McpIdle
    /\ BatchIdle

NextParse == CallParseLlmsTxt

SpecParse == InitParse /\ [][NextParse]_vars

InitResolve ==
    /\ fnInput \in ResolveInputs
    /\ fnOutput = <<>>
    /\ CacheIdle /\ IndexIdle /\ DocsIdle /\ WriteIdle /\ LinkIdle /\ InstallIdle
    /\ McpIdle
    /\ BatchIdle

NextResolve == CallResolvePackageUrl

SpecResolve == InitResolve /\ [][NextResolve]_vars

InitKey ==
    /\ fnInput \in KeyInputs
    /\ fnOutput = <<>>
    /\ CacheIdle /\ IndexIdle /\ DocsIdle /\ WriteIdle /\ LinkIdle /\ InstallIdle
    /\ McpIdle
    /\ BatchIdle

NextKey == CallParsePackageKey

SpecKey == InitKey /\ [][NextKey]_vars

InitRead ==
    /\ fnInput \in ReadInputs
    /\ fnOutput = <<>>
    /\ CacheIdle /\ IndexIdle /\ DocsIdle /\ WriteIdle /\ LinkIdle /\ InstallIdle
    /\ McpIdle
    /\ BatchIdle

NextRead ==
    \/ CallGetCachedMeta
    \/ CallListCached
    \/ CallReadProjectConfig
    \/ CallGetOrCreateProjectConfig

SpecRead == InitRead /\ [][NextRead]_vars

\* ------------------------------------------------------------------------
\* packages/mcp-server/src/index.ts : the tool update_packages_documentation
\* ------------------------------------------------------------------------

\* most names of a packageList
MaxPackages == 2

UpdateNames == {"vue", "pinia"}

\* 2 * 60 * 60 * 1000 milliseconds, in hours
TWO_HOURS == 2

\* Date.now() of a call, in hours since new Date(0)
UpdateNow == 5

\* the erudita.json of a package directory: missing, unparsable, without a
\* lastUpdatedAt, or with one of four hours, two hours or one hour before the call
UpdateMetadata ==
    { [kind |-> "missing", lastUpdatedAt |-> <<>>],
      [kind |-> "malformed", lastUpdatedAt |-> <<>>],
      [kind |-> "parsed", lastUpdatedAt |-> <<>>] }
    \cup { [kind |-> "parsed", lastUpdatedAt |-> <<t>>] :
             t \in {UpdateNow - 4, UpdateNow - TWO_HOURS, UpdateNow - 1} }

\* node_modules/<name>/package.json: missing, without a usable homepage, or
\* with an https homepage
PackageJsons == {"missing", "none", "https"}

UpdateInputs ==
    { [fn |-> "update_packages_documentation", packageList |-> l, force |-> f,
       metadata |-> m, packageJson |-> j, now |-> UpdateNow] :
        l \in SeqsUpTo(UpdateNames, MaxPackages), f \in BOOLEAN,
        m \in [UpdateNames -> UpdateMetadata], j \in [UpdateNames -> PackageJsons] }

\* metadata.lastUpdatedAt ? new Date(metadata.lastUpdatedAt) : new Date(0)
LastUpdatedAt(metadata) ==
    IF metadata.lastUpdatedAt # <<>> THEN metadata.lastUpdatedAt[1] ELSE 0

\* !force && lastUpdatedAt.getTime() < Date.now() - 2 * 60 * 60 * 1000
SkipsUpdate(force, lastUpdatedAt, dateNow) ==
    ~force /\ lastUpdatedAt < dateNow - TWO_HOURS

UpdateStart(metadata) ==
    [metadata |-> metadata, skipped |-> <<>>, updated |-> <<>>, failed |-> <<>>,
     isError |-> FALSE]

\* fs.access(metadataPath).catch(() => fs.writeFile(metadataPath, {name}))
EnsuredMetadata(metadata) ==
    IF metadata.kind = "missing" THEN [kind |-> "parsed", lastUpdatedAt |-> <<>>]
    ELSE metadata

InSeq(x, seq) == \E i \in 1..Len(seq) : seq[i] = x

\* one pass of "for (const pkgDir of packageDirList)"
UpdateOne(st, name, force, packageJson, dateNow) ==
    IF SkipsUpdate(force, LastUpdatedAt(st.metadata[name]), dateNow)
    THEN [metadata |-> [st.metadata EXCEPT ![name] = EnsuredMetadata(st.metadata[name])],
          skipped |-> Append(st.skipped, name),
          updated |-> st.updated, failed |-> st.failed, isError |-> FALSE]
    ELSE IF packageJson[name] = "missing"
    THEN [metadata |-> [st.metadata EXCEPT ![name] = EnsuredMetadata(st.metadata[name])],
          skipped |-> st.skipped, updated |-> st.updated, failed |-> st.failed,
          isError |-> TRUE]
    ELSE [metadata |-> [st.metadata EXCEPT ![name] =
                            [kind |-> "parsed", lastUpdatedAt |-> <<dateNow>>]],
          skipped |-> st.skipped,
          updated |-> IF packageJson[name] = "https"
                      THEN Append(st.updated, name) ELSE st.updated,
          failed |-> IF packageJson[name] = "https" \/ InSeq(name, st.failed)
                     THEN st.failed ELSE Append(st.failed, name),
          isError |-> FALSE]

RECURSIVE UpdateLoop(_, _, _, _, _, _)
UpdateLoop(st, packageList, i, force, packageJson, dateNow) ==
    IF i > Len(packageList) \/ st.isError THEN st
    ELSE UpdateLoop(UpdateOne(st, packageList[i], force, packageJson, dateNow),
                    packageList, i + 1, force, packageJson, dateNow)

\* the handler of update_packages_documentation
CallUpdatePackagesDocumentation ==
    /\ fnInput.fn = "update_packages_documentation"
    /\ fnOutput = <<>>
    /\ fnOutput' = <<UpdateLoop(UpdateStart(fnInput.metadata), fnInput.packageList, 1,
                                fnInput.force, fnInput.packageJson, fnInput.now)>>
    /\ UNCHANGED <<fnInput, besidesParser>>

InitUpdate ==
    /\ fnInput \in UpdateInputs
    /\ fnOutput = <<>>
    /\ CacheIdle /\ IndexIdle /\ DocsIdle /\ WriteIdle /\ LinkIdle /\ InstallIdle
    /\ McpIdle
    /\ BatchIdle

NextUpdate == CallUpdatePackagesDocumentation

SpecUpdate == InitUpdate /\ [][NextUpdate]_vars

\* ------------------------------------------------------------------------
\* commands/uninstall.ts : one run of `erudita uninstall <packages...>`
\* ------------------------------------------------------------------------

\* most package arguments of one run
MaxArgs == 2

\* the keys of erudita.json: two versions of one name, and another name
UninstallKeys ==
    { <<"a", "@", "1">>,
      <<"a", "@", "1", "1">>,
      <<"u">> }

\* the package arguments: a name, a name with a version, another name
UninstallArgs ==
    { <<"a">>,
      <<"a", "@", "1">>,
      <<"a", "@", "2">>,
      <<"u">> }

\* .erudita: for each key no entry, a symbolic link into the cache, or a copy
UninstallLinks ==
    { [e \in { LinkName(k) : k \in ks } |->
          IF e \in { LinkName(k) : k \in copies }
          THEN [kind |-> "dir", content |-> CacheOf(NoEntries, ks)[e]]
          ELSE [kind |-> "symlink", target |-> e]] :
        ks \in SUBSET UninstallKeys, copies \in SUBSET UninstallKeys }

UninstallInputs ==
    { [fn |-> "uninstall", positionals |-> <<<<"uninstall">>>> \o args, config |-> c,
       fs |-> [cache |-> CacheOf(NoEntries, cached), project |-> links]] :
        args \in SeqsUpTo(UninstallArgs, MaxArgs),
        c \in {<<>>} \cup { <<ks>> : ks \in SUBSET UninstallKeys },
        cached \in SUBSET UninstallKeys,
        links \in UninstallLinks }

\* (ctx.positionals as string[]).filter((p) => p !== 'uninstall' && p !== 'u')
PackagesToRemove(positionals) ==
    SelectSeq(positionals, LAMBDA p : p # <<"uninstall">> /\ p # <<"u">>)

\* configKeys.filter(...) of one package argument
MatchedKeys(configKeys, pkg) ==
    { key \in configKeys :
        /\ parsePackageKey(key).name = parsePackageKey(pkg).name
        /\ \/ parsePackageKey(pkg).version = <<>>
           \/ parsePackageKey(pkg).version = <<<<>>>>
           \/ parsePackageKey(key).version = parsePackageKey(pkg).version }

KeysToRemove(configKeys, packagesToRemove) ==
    UNION { MatchedKeys(configKeys, packagesToRemove[i]) : i \in 1..Len(packagesToRemove) }

\* for (const key of keysToRemove) removePackageLink(cwd, key)
RECURSIVE RemoveLinksOf(_, _)
RemoveLinksOf(fs, keys) ==
    IF keys = {} THEN fs
    ELSE LET key == CHOOSE k \in keys : TRUE
         IN  RemoveLinksOf(removePackageLinkOn(fs, key).fs, keys \ {key})

\* run(ctx): the erudita.json and the file system it leaves, and whether
\* writeProjectConfig was called
uninstall(positionals, config, fs) ==
    IF config = <<>> \/ PackagesToRemove(positionals) = <<>>
    THEN [config |-> config, fs |-> fs, wrote |-> FALSE, removed |-> {}]
    ELSE [config |-> <<config[1] \ KeysToRemove(config[1], PackagesToRemove(positionals))>>,
          fs |-> RemoveLinksOf(fs, KeysToRemove(config[1], PackagesToRemove(positionals))),
          wrote |-> KeysToRemove(config[1], PackagesToRemove(positionals)) # {},
          removed |-> KeysToRemove(config[1], PackagesToRemove(positionals))]

CallUninstall ==
    /\ fnInput.fn = "uninstall"
    /\ fnOutput = <<>>
    /\ fnOutput' = <<uninstall(fnInput.positionals, fnInput.config, fnInput.fs)>>
    /\ UNCHANGED <<fnInput, besidesParser>>

InitUninstall ==
    /\ fnInput \in UninstallInputs
    /\ fnOutput = <<>>
    /\ CacheIdle /\ IndexIdle /\ DocsIdle /\ WriteIdle /\ LinkIdle /\ InstallIdle
    /\ McpIdle
    /\ BatchIdle

NextUninstall == CallUninstall

SpecUninstall == InitUninstall /\ [][NextUninstall]_vars

InitMcp ==
    /\ docCache = NoEntries
    /\ toolCall = NoCall
    /\ CacheIdle /\ IndexIdle /\ DocsIdle /\ WriteIdle /\ LinkIdle /\ InstallIdle
    /\ ParserIdle
    /\ BatchIdle

NextMcp == UpdateDocumentation \/ GetDocumentation

SpecMcp == InitMcp /\ [][NextMcp]_vars

\* a run starts with the cache, the links and the erudita.json earlier runs left
InitBatch ==
    /\ \E cached \in SUBSET BatchKeys : packagesDir = CacheOf(NoEntries, cached)
    /\ \E linked \in SUBSET BatchKeys :
        /\ linkDir = LinksOf(NoEntries, linked)
        /\ linkKey = [e \in { LinkName(k) : k \in linked } |->
                        CHOOSE k \in linked : LinkName(k) = e]
    /\ now = 1
    /\ lastCall = NoCall
    /\ prevCall = NoCall
    /\ lastLink = NoLink
    /\ gitignore = FALSE
    /\ inPc = "idle" /\ inKeys = <<>> /\ inForce = FALSE /\ inIndex = 1
    /\ inFetched = {} /\ inFailed = {} /\ inLinked = {}
    /\ btCmd \in BatchCmds
    /\ btItems \in SeqsUpTo(BatchKeys, MaxItems)
    /\ btForce \in BOOLEAN
    /\ btAll \in BOOLEAN
    /\ btCmd = "update" => ~btForce
    /\ btCmd # "update" => ~btAll
    /\ btCmd = "install" => btItems # <<>>
    /\ btPc = "start"
    /\ btIndex = 1
    /\ btCounts = NoCounts
    /\ btProcessed = <<>>
    /\ btConfig = {}
    /\ btManifest \in SUBSET BatchKeys
    /\ btCmd # "install" => btManifest = {}
    /\ IndexIdle
    /\ DocsIdle
    /\ WriteIdle
    /\ ParserIdle
    /\ McpIdle

NextBatch == BtStart \/ BtNext \/ BtResolved \/ BtResolvedCached \/ BtFetched \/ BtDone

SpecBatch == InitBatch /\ [][NextBatch]_vars

NextInstall == InStart \/ InNext \/ InFetched \/ InDone

SpecInstall == InitInstall /\ [][NextInstall]_vars

\* a run of fetch, update or install, with or without package arguments
InitRuns == InitBatch \/ InitInstall

NextRuns == NextBatch \/ NextInstall

SpecRuns == InitRuns /\ [][NextRuns]_vars

NextLinks ==
    \/ CreatePackageLink
    \/ RemovePackageLink
    \/ PruneProjectLinks
    \/ LkCachePackage
    \/ LkRemoveFromCache
    \/ LkClearCache

SpecLinks == InitLinks /\ [][NextLinks]_vars

NextWrite == WrCall \/ WrMkdir \/ WrLlms \/ WrDoc \/ WrDocsDone \/ WrMeta \/ WrInterrupt

SpecWrite == InitWrite /\ [][NextWrite]_vars

NextCache == CachePackage \/ RemoveFromCache \/ ClearCache

Next == NextCache

Spec == Init /\ [][Next]_vars

\* ------------------------------------------------------------------------
\* Index Fetcher properties
\* ------------------------------------------------------------------------

Last(q) == q[Len(q)]

\* q without the repetitions that retries of one URL leave in it
RECURSIVE Collapse(_)
Collapse(q) ==
    IF Len(q) <= 1 THEN q
    ELSE LET front == Collapse(SubSeq(q, 1, Len(q) - 1))
         IN  IF Last(q) = Last(front) THEN front ELSE Append(front, Last(q))

IsPrefix(p, q) == Len(p) <= Len(q) /\ SubSeq(q, 1, Len(p)) = p

WithoutTrailingSlash(u) == IF Last(u) = "/" THEN SubSeq(u, 1, Len(u) - 1) ELSE u

NonRootPath(base) == WithoutTrailingSlash(base) # SubSeq(base, 1, 2)

\* the order in which the four index URLs of a base URL may be asked for
AttemptOrder(base) ==
    LET direct == WithoutTrailingSlash(base)
        root == SubSeq(base, 1, 2)
    IN  << direct \o <<"/", "llms.txt">>, direct \o <<"/", "llms-full.txt">> >>
        \o (IF NonRootPath(base)
            THEN << root \o <<"/", "llms.txt">>, root \o <<"/", "llms-full.txt">> >>
            ELSE <<>>)

Accepted(r) == r.kind = "response" /\ ResponseOk(r) /\ IncludesHash(r.body)

\* C5: fetchLlmsTxt requests <base>/llms.txt before <base>/llms-full.txt, the
\* root-domain paths only after both base paths failed, only when the base URL
\* has a non-root path, again llms.txt first; no request is made after the
\* first accepted response.
C5_FallbackAttemptOrder ==
    /\ [](/\ IsPrefix(Collapse(ixRequests), AttemptOrder(ixBase))
          /\ (ixPc = "done" /\ ixResult # <<>>) => ixResult[1].url = Last(ixRequests))
    /\ [][ /\ (ixPc = "fetch" /\ Accepted(ixLast'[1])) =>
                (ixPc' = "done" /\ ixResult' # <<>> /\ ixRequests' = ixRequests)
           /\ (ixPc = "done") => (ixRequests' = ixRequests) ]_vars

C5_Witness ==
    /\ ixPc = "done"
    /\ ixResult # <<>>
    /\ ixResult[1].url = <<"https://", "x.test", "/", "llms-full.txt">>
    /\ Len(Collapse(ixRequests)) = 4

Attempts(url) == Cardinality({ i \in 1..Len(ixRequests) : ixRequests[i] = url })

Retried == ixPc = "backoff" /\ ixPc' = "fetch" /\ ixRequests' = Append(ixRequests, Last(ixRequests))

Is4xx(r) == r.kind = "response" /\ r.status >= 400 /\ r.status <= 499

Is5xx(r) == r.kind = "response" /\ r.status >= 500 /\ r.status <= 599

Is2xx(r) == r.kind = "response" /\ r.status >= 200 /\ r.status <= 299

\* after this step the URL asked last is not asked again
NoFurtherAttempt ==
    /\ ixPc' # "backoff"
    /\ ixRequests' = ixRequests \/ Last(ixRequests') # Last(ixRequests)

AtMostThreeAttempts == \A i \in 1..Len(ixRequests) : Attempts(ixRequests[i]) <= 3

\* a 4xx response ends the attempts with a miss, a 2xx response ends them
StopsOn4xxAnd2xx ==
    /\ (ixPc = "fetch" /\ Is4xx(ixLast'[1])) => (NoFurtherAttempt /\ ixResult' = <<>>)
    /\ (ixPc = "fetch" /\ Is2xx(ixLast'[1])) => NoFurtherAttempt

FailureOr5xx(r) == r.kind = "error" \/ Is5xx(r)

FailureOrNot2xx4xx(r) == r.kind = "error" \/ (~Is2xx(r) /\ ~Is4xx(r))

InFlight == { i \in DOMAIN taskPc : taskPc[i] \in {"fetch", "backoff"} }

\* C2: with a limit N >= 1, never more than N item fetches are in flight, and
\* a new item is started only when fewer than N are in flight.
C2_BoundedConcurrency ==
    /\ [](Cardinality(InFlight) <= concurrency)
    /\ [][ poolIndex' # poolIndex => Cardinality(InFlight) < concurrency ]_vars

C2_Witness ==
    /\ concurrency = 2
    /\ Cardinality(InFlight) = 2
    /\ pc = "pool_race"
    /\ poolIndex < Len(docUrls)

Succeeded == pc = "done" /\ fdResult # <<>> /\ fdResult[1].success

\* C3: when the document phase finishes over M URLs, every URL has been counted
\* exactly once as a success or an error: completed + errors = M.
C3_TallyComplete ==
    Succeeded =>
        /\ completed + errors = Len(docUrls)
        /\ completed = Cardinality({ i \in DOMAIN fetched : fetched[i] = "content" })
        /\ errors = Cardinality({ i \in DOMAIN fetched : fetched[i] \in {"empty", "null"} })

C3_Witness ==
    /\ Succeeded
    /\ Len(docUrls) = 3
    /\ completed = 1
    /\ errors = 2

InPool == pc \in {"pool_loop", "pool_race", "pool_all"}

C7_SuccessIffValidIndex ==
    pc = "done" =>
        LET found == llmsResult # <<>>
            parsed == parseLlmsTxt(llmsResult[1].content)
            valid == parsed.title # <<>> \/ Len(parsed.entries) >= 1
            fallback == llmsResult[1].pathPrefix # <<>>
            kept == filterEntriesByPath(parsed.entries, llmsResult[1].pathPrefix[1])
        IN  fdResult[1].success <=>
                (found /\ valid /\ (fallback => Len(kept) >= 1))

C7_Witness ==
    /\ Succeeded
    /\ llmsResult[1].pathPrefix # <<>>
    /\ llmsResult[1].content = IndexUntitled
    /\ errors = 1
    /\ completed = 0

\* C8: on success, docFiles holds for every URL whose fetch succeeded an entry
\* from that URL's derived filename to that URL's content, so it has as many
\* entries as URLs succeeded.
C8_DocFilesHoldEverySuccess ==
    Succeeded =>
        LET files == fdResult[1].docFiles[1]
            ok == { i \in DOMAIN fetched : fetched[i] = "content" }
        IN  /\ \A i \in ok :
                  /\ FilenameOfUrl(docUrls[i]) \in MapKeys(files)
                  /\ MapGet(files, FilenameOfUrl(docUrls[i])) = DocServer(docUrls[i])
            /\ Len(files) = Cardinality(ok)

\* what does hold: every entry of docFiles is the content of a URL that
\* succeeded, under that URL's derived filename
DocFilesComeFromSuccesses ==
    Succeeded =>
        \A e \in 1..Len(fdResult[1].docFiles[1]) :
            \E i \in DOMAIN fetched :
                /\ fetched[i] = "content"
                /\ fdResult[1].docFiles[1][e] = <<FilenameOfUrl(docUrls[i]), DocServer(docUrls[i])>>

\* ------------------------------------------------------------------------
\* Cache Store properties
\* ------------------------------------------------------------------------

\* C1: after cachePackage(k, u, _, t, d), getCachedLlmsTxt(k) returns exactly t
\* and getCachedDocFile(k, f) returns exactly d[f] for every filename f in d.
C1_RoundTripCache ==
    lastCall.op = "cachePackage" =>
        /\ getCachedLlmsTxt(lastCall.key) = <<lastCall.rawLlmsTxt>>
        /\ \A f \in MapKeys(lastCall.docFiles) :
              getCachedDocFile(lastCall.key, f) = <<MapGet(lastCall.docFiles, f)>>

\* the part of C1 that concerns the index text alone
RoundTripLlmsTxt ==
    lastCall.op = "cachePackage" =>
        getCachedLlmsTxt(lastCall.key) = <<lastCall.rawLlmsTxt>>

Recached ==
    /\ lastCall.op = "cachePackage"
    /\ prevCall.op = "cachePackage"
    /\ prevCall.key = lastCall.key
    /\ <<prevCall.sourceUrl, prevCall.rawLlmsTxt, prevCall.docFiles>>
         # <<lastCall.sourceUrl, lastCall.rawLlmsTxt, lastCall.docFiles>>

ListedOnceWithLastMeta ==
    /\ Cardinality({ e \in listCached : e[2].name = lastCall.key }) = 1
    /\ getCachedLlmsTxt(lastCall.key) = <<lastCall.rawLlmsTxt>>
    /\ getCachedMeta(lastCall.key) =
          << [name |-> lastCall.key, sourceUrl |-> lastCall.sourceUrl,
              fetchedAt |-> lastCall.time] >>

\* C9: after cachePackage(k, ...) is called twice with different content,
\* listCached() has exactly one entry named k, and getCachedLlmsTxt,
\* getCachedDocFile and getCachedMeta return the second call's content.
C9_IdempotentRecache ==
    Recached =>
        /\ ListedOnceWithLastMeta
        /\ \A f \in MapKeys(lastCall.docFiles) :
              getCachedDocFile(lastCall.key, f) = <<MapGet(lastCall.docFiles, f)>>

\* the part of C9 that does not read a document file back
RecacheListedOnce == Recached => ListedOnceWithLastMeta

ReadsOf(k) ==
    <<isCached(k), getCachedMeta(k), getCachedLlmsTxt(k),
      [f \in FileNames |-> getCachedDocFile(k, f)]>>

\* C10: a cachePackage or removeFromCache on key k2 never changes what isCached,
\* getCachedMeta, getCachedLlmsTxt or getCachedDocFile return for a key k1 # k2,
\* and listCached reports each cached key under its own name.
C10_DistinctKeysDistinctEntries ==
    [][ lastCall'.op \in {"cachePackage", "removeFromCache"} =>
          /\ \A k1 \in PackageKeys \ {lastCall'.key} : ReadsOf(k1)' = ReadsOf(k1)
          /\ \A k1 \in PackageKeys :
                isCached(k1)' => \E e \in listCached' : e[2].name = k1 ]_vars

\* removeFromCache(k) returned whether k was cached and left nothing of k
RemovedOwnEntry ==
    /\ lastCall'.result = isCached(lastCall'.key)
    /\ ~isCachedIn(packagesDir', lastCall'.key)
    /\ getCachedMetaIn(packagesDir', lastCall'.key) = <<>>
    /\ getCachedLlmsTxtIn(packagesDir', lastCall'.key) = <<>>
    /\ \A f \in FileNames : getCachedDocFileIn(packagesDir', lastCall'.key, f) = <<>>

\* C12: removeFromCache(k) returns true exactly when k was cached before the
\* call; afterwards isCached(k) is false and getCachedMeta(k),
\* getCachedLlmsTxt(k) and getCachedDocFile(k, f) are absent for every f, while
\* every other key's entry is unchanged.
C12_RemoveFromCache ==
    [][ lastCall'.op = "removeFromCache" =>
          /\ RemovedOwnEntry
          /\ \A k1 \in PackageKeys \ {lastCall'.key} : ReadsOf(k1)' = ReadsOf(k1) ]_vars

\* what holds of C12: the result and the removal of k's own entry, and the
\* entries of the keys that live in another directory
RemoveFromCacheOwnDirectory ==
    [][ lastCall'.op = "removeFromCache" =>
          /\ RemovedOwnEntry
          /\ \A k1 \in PackageKeys :
                getPackageDir(k1) # getPackageDir(lastCall'.key)
                    => ReadsOf(k1)' = ReadsOf(k1) ]_vars

\* ------------------------------------------------------------------------
\* Cache Store, one file system call at a time
\* ------------------------------------------------------------------------

\* C11: in every state during or after cachePackage(k, ...), also when the call
\* was cut short between two writes, getCachedMeta(k) and getCachedLlmsTxt(k)
\* are both absent or both come from the same cachePackage call.
C11_MetaAndIndexFromOneCall ==
    \A k \in PackageKeys :
        \/ getCachedMeta(k) = <<>> /\ getCachedLlmsTxt(k) = <<>>
        \/ /\ getCachedMeta(k) # <<>>
           /\ getCachedLlmsTxt(k) # <<>>
           /\ getCachedMeta(k)[1].fetchedAt = llmsBy[getPackageDir(k)]

\* what holds of C11: when a call returned, both come from that call
MetaAndIndexAfterReturn ==
    (wrPc = "idle" /\ lastCall.op = "cachePackage") =>
        /\ getCachedMeta(lastCall.key) # <<>>
        /\ getCachedMeta(lastCall.key)[1].fetchedAt = lastCall.time
        /\ llmsBy[getPackageDir(lastCall.key)] = lastCall.time

\* ------------------------------------------------------------------------
\* Project Link Manager
\* ------------------------------------------------------------------------

\* the entries of .erudita whose package key is outside keepKeys
LinksOutside(keepKeys) == { e \in DOMAIN linkDir : linkKey[e] \notin keepKeys }

\* C13: pruneProjectLinks(cwd, K) removes exactly the links whose package key is
\* not in K, returns exactly those keys, and leaves every link whose key is in
\* K as it was.
C13_PruningCorrectness ==
    [][ lastLink'.op = "pruneProjectLinks" =>
          /\ DOMAIN linkDir' = DOMAIN linkDir \ LinksOutside(lastLink'.keepKeys)
          /\ lastLink'.removed = { linkKey[e] : e \in LinksOutside(lastLink'.keepKeys) }
          /\ \A e \in DOMAIN linkDir' : linkDir'[e] = linkDir[e] ]_vars

\* what holds of C13: the same for the links of keys that the reversal of the
\* name substitution gives back
PruningOfReversibleKeys ==
    [][ (/\ lastLink'.op = "pruneProjectLinks"
         /\ \A e \in DOMAIN linkDir : KeyOfEntry(e) = linkKey[e]) =>
          /\ DOMAIN linkDir' = DOMAIN linkDir \ LinksOutside(lastLink'.keepKeys)
          /\ lastLink'.removed = { linkKey[e] : e \in LinksOutside(lastLink'.keepKeys) }
          /\ \A e \in DOMAIN linkDir' : linkDir'[e] = linkDir[e] ]_vars

\* C14: after createPackageLink(cwd, k, mode) for a cached key k, whatever link
\* or copy was there before, one entry is at k's link path: a symlink when mode
\* is 'link', a real directory when mode is 'copy'.
C14_LinkModeReplacement ==
    (lastLink.op = "createPackageLink" /\ lastLink.cached) =>
        /\ ~lastLink.threw
        /\ EntryKind(linkDir, lastLink.key) =
              (IF lastLink.mode = "link" THEN "symlink" ELSE "dir")

C14_Witness ==
    /\ lastLink.op = "createPackageLink"
    /\ lastLink.cached
    /\ lastLink.mode = "link"
    /\ lastLink.had = "dir"
    /\ EntryKind(linkDir, lastLink.key) = "symlink"

\* C15: removePackageLink(cwd, k) returns true exactly when an entry (symlink or
\* copied directory) was at k's link path, and afterwards no entry is there.
C15_RemovePackageLink ==
    lastLink.op = "removePackageLink" =>
        /\ lastLink.result = (lastLink.had # "none")
        /\ EntryKind(linkDir, lastLink.key) = "none"

\* what holds of C15: a call that returned true removed the entry, and a call
\* returns false only when nothing or a link without its target was there
RemovePackageLinkWhenTargetExists ==
    lastLink.op = "removePackageLink" =>
        /\ lastLink.result => EntryKind(linkDir, lastLink.key) = "none"
        /\ ~lastLink.result =>
              \/ lastLink.had = "none"
              \/ lastLink.had = "symlink" /\ ~isCached(lastLink.key)

\* C17: createPackageLink, removePackageLink and pruneProjectLinks leave every
\* cached package's metadata, index text and documents unchanged.
C17_LinksNeverMutateCache ==
    [][ lastLink'.op \in {"createPackageLink", "removePackageLink", "pruneProjectLinks"}
          => packagesDir' = packagesDir ]_vars

C17_Witness ==
    /\ lastLink.op = "removePackageLink"
    /\ lastLink.had = "symlink"
    /\ lastLink.result
    /\ isCached(lastLink.key)
    /\ getCachedDocFile(lastLink.key, <<"a", "/", "b">>) # <<>>

\* ------------------------------------------------------------------------
\* install run without package arguments
\* ------------------------------------------------------------------------

\* the entry names of the keys of erudita.json
ManifestNames == { LinkName(k) : k \in KeySet(inKeys) }

\* every key whose cache entry was absent, and every key under --force, had
\* been fetched when it was linked
FetchedBeforeLinked == \A l \in inLinked : l.needed => l.fetched

\* C16 as claimed: when the run completes, the entries of .erudita are exactly
\* the keys of erudita.json, and every key whose cache entry was absent (every
\* key under --force) has been fetched before it was linked.
C16_InstallReconcilesAsClaimed ==
    inPc = "done" =>
        /\ DOMAIN linkDir = ManifestNames
        /\ FetchedBeforeLinked

\* C16: when the run completes, every entry of .erudita belongs to a key of
\* erudita.json, every key that was cached (without --force) or whose fetch
\* succeeded has its entry, a key whose fetch failed got no new link, and every
\* key whose cache entry was absent (every key under --force) has been fetched
\* before it was linked.
C16_InstallReconciles ==
    inPc = "done" =>
        /\ DOMAIN linkDir \subseteq ManifestNames
        /\ \A k \in KeySet(inKeys) \ inFailed : LinkName(k) \in DOMAIN linkDir
        /\ \A l \in inLinked : l.key \notin inFailed
        /\ FetchedBeforeLinked

C16_Witness ==
    /\ inPc = "done"
    /\ inFetched # {}
    /\ inFailed # {}
    /\ \E l \in inLinked : ~l.needed
    /\ DOMAIN linkDir # ManifestNames

\* ------------------------------------------------------------------------
\* Path filtering
\* ------------------------------------------------------------------------

\* the path of an entry URL of FilterUrls, resolved against the site
PathOfEntryUrl(url) ==
    IF url[1] = "https://" THEN SubSeq(url, 3, Len(url))
    ELSE IF url[1] = "/" THEN url
    ELSE <<"/">> \o url

\* p without a trailing "/"
PrefixIgnoringSlash(p) ==
    IF p # <<>> /\ p[Len(p)] = "/" THEN SubSeq(p, 1, Len(p) - 1) ELSE p

\* path equals p or begins with p followed by "/"
EqualsOrBelow(path, p) ==
    \/ path = p
    \/ /\ Len(path) > Len(p)
       /\ \A i \in 1..Len(p) : path[i] = p[i]
       /\ path[Len(p) + 1] = "/"

RetainedEntry(e) ==
    EqualsOrBelow(PathOfEntryUrl(e.url), PrefixIgnoringSlash(fnInput.pathPrefix))

FilterReturned == fnInput.fn = "filterEntriesByPath" /\ fnOutput # <<>>

SectionPrefix == <<"/", "docs", "/", "section">>

\* C18: filterEntriesByPath(entries, p) returns, in their original order,
\* exactly the entries whose resolved URL path equals p or begins with p
\* followed by "/", a trailing "/" of p being ignored; for the prefix
\* /docs/section an entry at /docs/section-extra/a.md is dropped, while entries
\* at /docs/section/a.md and at /docs/section are kept
C18_PathFilteringExactness ==
    FilterReturned =>
        /\ fnOutput[1] = SelectSeq(fnInput.entries, RetainedEntry)
        /\ PrefixIgnoringSlash(fnInput.pathPrefix) = SectionPrefix =>
            \A i \in 1..Len(fnInput.entries) :
                LET url == fnInput.entries[i].url
                    kept == \E j \in 1..Len(fnOutput[1]) : fnOutput[1][j].url = url
                IN  /\ url = SectionPrefix \o <<"-extra", "/", "a.md">> => ~kept
                    /\ url \in {SectionPrefix \o <<"/", "a.md">>, SectionPrefix} => kept

\* the sibling section-extra is dropped and the entry of the section kept
C18_Witness ==
    /\ FilterReturned
    /\ fnInput.pathPrefix = SectionPrefix
    /\ Len(fnInput.entries) = 2
    /\ fnInput.entries[1].url = SectionPrefix \o <<"-extra", "/", "a.md">>
    /\ fnInput.entries[2].url = SectionPrefix \o <<"/", "a.md">>
    /\ fnOutput[1] = <<fnInput.entries[2]>>

\* ------------------------------------------------------------------------
\* Path filtering and the host of the index document
\* ------------------------------------------------------------------------

RootFilterReturned == fnInput.fn = "fetchPackageDocs" /\ fnOutput # <<>>

\* the entries fetchPackageDocs goes on with
KeptEntries == IF fnOutput[1].success THEN fnOutput[1].entries ELSE <<>>

HostOfUrl(url) == url[2]

ForeignHost(url) == IsAbsolute(url) /\ HostOfUrl(url) # HostOfUrl(fnInput.url)

\* C31: during root-domain path filtering an entry whose URL host differs from
\* the host of the index document is filtered out, also when its path equals
\* the prefix or continues it with '/'.
C31_ForeignHostFilteredOut ==
    RootFilterReturned =>
        \A i \in 1..Len(KeptEntries) : ~ForeignHost(KeptEntries[i].url)

\* what holds of C31: the host takes no part, an entry of another host is kept
\* exactly when its path is the prefix or below it
ForeignHostKeptByPath ==
    RootFilterReturned =>
        \A i \in 1..Len(fnInput.entries) :
            ForeignHost(fnInput.entries[i].url) =>
                ((\E j \in 1..Len(KeptEntries) : KeptEntries[j] = fnInput.entries[i])
                    <=> EqualsOrBelow(PathOfEntryUrl(fnInput.entries[i].url),
                                      PrefixIgnoringSlash(fnInput.pathPrefix)))

\* ------------------------------------------------------------------------
\* Parser entries and title
\* ------------------------------------------------------------------------

ParseReturned == fnInput.fn = "parseLlmsTxt" /\ fnOutput # <<>>

\* the lines of the call that are a bulleted link or a bare link
LinkLines == { i \in 1..Len(fnInput.forms) : fnInput.forms[i].kind \in {"bullet", "bare"} }

\* the k-th of them
LinkLine(k) == CHOOSE i \in LinkLines : Cardinality({ j \in LinkLines : j < i }) = k - 1

\* the label of the most recent "## " line before line i, empty without one
SectionAt(i) ==
    LET before == { j \in 1..(i - 1) : fnInput.forms[j].kind = "h2" }
    IN  IF before = {} THEN <<>>
        ELSE fnInput.forms[CHOOSE j \in before : \A h \in before : h <= j].text

\* C19: parseLlmsTxt yields one entry per bulleted-link or bare-link line, in
\* line order; the title of an entry is "<section> - <label>" with the label
\* of the most recent "## " line before it, the label alone without such a
\* line; url and the optional description are those of the line
C19_ParserEntries ==
    ParseReturned =>
        /\ Len(fnOutput[1].entries) = Cardinality(LinkLines)
        /\ \A k \in 1..Cardinality(LinkLines) :
            LET f == fnInput.forms[LinkLine(k)]
                section == SectionAt(LinkLine(k))
                entry == fnOutput[1].entries[k]
            IN  /\ entry.title = IF section = <<>> THEN f.label
                                 ELSE section \o <<" ", "-", " ">> \o f.label
                /\ entry.url = f.url
                /\ entry.description = f.description

\* a link before any section, a section, then a link with a description
C19_Witness ==
    /\ ParseReturned
    /\ Len(fnInput.forms) = 3
    /\ fnInput.forms[1].kind = "bare"
    /\ fnInput.forms[2].kind = "h2"
    /\ fnInput.forms[3].kind = "bullet" /\ fnInput.forms[3].description # <<>>
    /\ Len(fnOutput[1].entries) = 2
    /\ fnOutput[1].entries[1].title = fnInput.forms[1].label
    /\ fnOutput[1].entries[2].title # fnInput.forms[3].label

\* the "# " lines of the call
TitleLines == { i \in 1..Len(fnInput.forms) : fnInput.forms[i].kind = "h1" }

\* C20: when the content holds several lines starting with "# ", the title
\* parseLlmsTxt returns is the text of the first of them
C20_FirstTitleWins ==
    ParseReturned /\ Cardinality(TitleLines) >= 2 =>
        fnOutput[1].title =
            fnInput.forms[CHOOSE i \in TitleLines : \A j \in TitleLines : i <= j].text

\* the title returned is the text of the last line starting with "# "
LastTitleWins ==
    ParseReturned /\ TitleLines # {} =>
        fnOutput[1].title =
            fnInput.forms[CHOOSE i \in TitleLines : \A j \in TitleLines : j <= i].text

\* ------------------------------------------------------------------------
\* Parser description
\* ------------------------------------------------------------------------

\* the lines of the call that start with ">"
QuoteLines == { i \in 1..Len(fnInput.forms) : fnInput.forms[i].kind = "quote" }

FirstQuoteLine == CHOOSE i \in QuoteLines : \A j \in QuoteLines : i <= j

\* the last line of the run of consecutive ">" lines that starts at the first
FirstRunEnd ==
    CHOOSE j \in QuoteLines :
        /\ \A k \in FirstQuoteLine..j : k \in QuoteLines
        /\ j + 1 \notin QuoteLines

\* the one-word texts of the ">" lines in lines, joined with single spaces
JoinedQuotes(lines) ==
    [i \in 1..(2 * Cardinality(lines) - 1) |->
        IF i % 2 = 0 THEN " "
        ELSE fnInput.forms[CHOOSE l \in lines :
                Cardinality({ m \in lines : m < l }) = (i - 1) \div 2].text[1]]

\* C21: the description parseLlmsTxt returns is the single-space join of the
\* lines of the first run of consecutive ">" lines; the lines of a later
\* blockquote never contribute to it
C21_DescriptionOfFirstBlockquote ==
    ParseReturned /\ QuoteLines # {} =>
        fnOutput[1].description = <<JoinedQuotes(FirstQuoteLine..FirstRunEnd)>>

\* the first blank line after a ">" line, one past the last line without one
FirstClosingLine ==
    LET blank == { i \in 1..Len(fnInput.forms) :
                    /\ RenderLine(fnInput.forms[i]) = <<>>
                    /\ i > FirstQuoteLine }
    IN  IF blank = {} THEN Len(fnInput.forms) + 1
        ELSE CHOOSE i \in blank : \A j \in blank : i <= j

\* the description joins every ">" line before the first blank line that
\* follows a ">" line, whatever lies between them
DescriptionJoinsUntilBlankLine ==
    ParseReturned /\ QuoteLines # {} =>
        fnOutput[1].description =
            <<JoinedQuotes({ i \in QuoteLines : i < FirstClosingLine })>>

\* ------------------------------------------------------------------------
\* Origin resolver
\* ------------------------------------------------------------------------

ResolveReturned == fnInput.fn = "resolvePackageUrl" /\ fnOutput # <<>>

\* starts with https://, names a host, holds no white space and ends without "/"
WellFormedOrigin(url) ==
    /\ Len(url) >= 2
    /\ url[1] = "https://"
    /\ url[2] \notin {"/", " "}
    /\ url[Len(url)] # "/"
    /\ \A i \in 1..Len(url) : url[i] # " "

\* C22: for every registry response resolvePackageUrl returns null or a
\* well-formed URL that starts with https:// and has no trailing slash,
\* whether it comes from homepage or from repository.url
C22_OriginResultShape ==
    ResolveReturned => fnOutput[1] = <<>> \/ WellFormedOrigin(fnOutput[1][1])

\* an http or https URL with at most one trailing slash
PlainWebUrl(url) ==
    /\ Len(url) >= 2
    /\ url[1] \in {"http://", "https://"}
    /\ \A i \in 2..Len(url) : url[i] # " " /\ (url[i] = "/" => i > 2 /\ url[i - 1] # "/")

\* the result is well formed when the field it is taken from, trimmed and
\* freed of git+, git://, git@ and .git, is an http or https URL
OriginShapeOfWebUrls ==
    ResolveReturned /\ fnInput.response.kind = "ok" =>
        /\ fnInput.response.homepage # <<>>
           /\ PlainWebUrl(Trim(fnInput.response.homepage[1]))
           => WellFormedOrigin(fnOutput[1][1])
        /\ fnInput.response.homepage = <<>>
           /\ fnInput.response.repositoryUrl # <<>>
           /\ fnInput.response.repositoryUrl[1][1] \in {"git+", "git://", "git@", "https://"}
           /\ fnOutput[1] # <<>>
           => WellFormedOrigin(fnOutput[1][1])

\* ------------------------------------------------------------------------
\* Package key version delimiter
\* ------------------------------------------------------------------------

KeyParsed == fnInput.fn = "parsePackageKey" /\ fnOutput # <<>>

\* the end of the scope of the key: its first "/" when the key starts with
\* "@" (the leading "@" itself when it has no "/"), nothing otherwise
ScopeEnd ==
    IF fnInput.key[1] # "@" THEN 0
    ELSE LET slashes == { i \in 1..Len(fnInput.key) : fnInput.key[i] = "/" }
         IN  IF slashes = {} THEN 1 ELSE CHOOSE i \in slashes : \A j \in slashes : i <= j

\* the "@" characters after the scope
VersionAts == { i \in (ScopeEnd + 1)..Len(fnInput.key) : fnInput.key[i] = "@" }

LastVersionAt == CHOOSE i \in VersionAts : \A j \in VersionAts : j <= i

\* name and version are the parts of the key before and after its "@" at d
SplitAt(d) ==
    /\ fnOutput[1].name = SubSeq(fnInput.key, 1, d - 1)
    /\ fnOutput[1].version = <<SubSeq(fnInput.key, d + 1, Len(fnInput.key))>>

Unsplit == fnOutput[1].name = fnInput.key /\ fnOutput[1].version = <<>>

\* C23: parsePackageKey splits name and version at the last "@" after the
\* scope slash, for an unscoped key at its last "@"; a leading scope "@" is
\* never the version delimiter
C23_VersionDelimiter ==
    KeyParsed /\ (fnInput.key[1] = "@" => ScopeEnd > 1) =>
        IF VersionAts = {} THEN Unsplit ELSE SplitAt(LastVersionAt)

\* the key is split at the first "@" of an unscoped key and at the first "@"
\* after the first "/" of a key that starts with "@"; a key that starts with
\* "@" and holds no "/" is not split
SplitsAtFirstVersionAt ==
    KeyParsed =>
        LET slash == IF fnInput.key[1] = "@" THEN IndexFrom(fnInput.key, "/", 1) ELSE 0
            ats == { i \in VersionAts : i > slash }
        IN  IF ats = {} \/ (fnInput.key[1] = "@" /\ slash = 0) THEN Unsplit
            ELSE SplitAt(CHOOSE i \in ats : \A j \in ats : i <= j)

\* ------------------------------------------------------------------------
\* Malformed persisted state
\* ------------------------------------------------------------------------

ReadReturned == fnInput.fn \in ReadFns /\ fnOutput # <<>>

\* the file is there and is no JSON document
Unparsable(file) == file.kind \in {"truncated", "empty", "garbage"}

\* the directories of the call whose meta.json is a JSON document
ParsableDirs == { d \in DOMAIN fnInput.metaFiles : fnInput.metaFiles[d].kind = "json" }

\* the directory whose meta.json getCachedMeta(packageName) opens
DirOfPackageName ==
    IF fnInput.packageName = <<"p">> THEN <<"p">> ELSE <<"@", "s", "_", "_", "n">>

\* C24: with an unparsable meta.json getCachedMeta returns null, and
\* listCached returns the metadata of every other cached package; with an
\* unparsable erudita.json readProjectConfig returns null and
\* getOrCreateProjectConfig an empty package map; none of the reads raises
C24_MalformedStateIsAbsence ==
    ReadReturned =>
        /\ ~fnOutput[1].threw
        /\ fnInput.fn = "getCachedMeta"
           /\ DirOfPackageName \in DOMAIN fnInput.metaFiles
           /\ Unparsable(fnInput.metaFiles[DirOfPackageName])
           => fnOutput[1].value = <<>>
        /\ fnInput.fn = "listCached"
           => fnOutput[1].value = { fnInput.metaFiles[d].value[1] : d \in ParsableDirs }
        /\ fnInput.fn = "readProjectConfig" /\ Unparsable(fnInput.manifest)
           => fnOutput[1].value = <<>>
        /\ fnInput.fn = "getOrCreateProjectConfig" /\ Unparsable(fnInput.manifest)
           => fnOutput[1].value = <<[packages |-> {}]>>

\* listCached met one unparsable meta.json and returned the other package
C24_Witness ==
    /\ ReadReturned
    /\ fnInput.fn = "listCached"
    /\ DOMAIN fnInput.metaFiles = CacheDirs
    /\ Unparsable(fnInput.metaFiles[<<"p">>])
    /\ Cardinality(ParsableDirs) = 1
    /\ Cardinality(fnOutput[1].value) = 1

\* ------------------------------------------------------------------------
\* Progress events of fetchPackageDocs
\* ------------------------------------------------------------------------

\* when the index-phase event has been reported, fetchLlmsTxt has returned
IndexEventAfterIndexFetch == progress.phase = "llms-txt" => pc # "index"

\* one docs-phase event per document attempt, the k-th reporting
\* completed + errors = k and total = M
DocsEventPerAttempt ==
    /\ progressCount = Cardinality({ i \in DOMAIN taskPc : taskPc[i] = "done" })
    /\ progress.phase = "docs" =>
        /\ progress.completed + progress.errors = progressCount
        /\ progress.total = Len(docUrls)

\* from one event to the next neither count decreases
CountsNeverDecrease ==
    /\ progress'.completed >= progress.completed
    /\ progress'.errors >= progress.errors

\* C25: the index-phase callback runs after the index fetch has completed, and
\* one docs-phase callback runs after each document attempt, the k-th
\* reporting completed + errors = k with total = M, no count ever decreasing
C25_ProgressEvents ==
    /\ [](IndexEventAfterIndexFetch /\ DocsEventPerAttempt)
    /\ [][CountsNeverDecrease]_vars

\* the docs-phase events are as the claim says
DocsProgressEvents == []DocsEventPerAttempt /\ [][CountsNeverDecrease]_vars

\* ------------------------------------------------------------------------
\* get_documentation
\* ------------------------------------------------------------------------

GotDocumentation == toolCall.op = "get_documentation"

\* the key the call asks for
RequestedKey ==
    IF toolCall.version = <<>> THEN toolCall.packageName
    ELSE toolCall.packageName \o <<"@">> \o toolCall.version[1]

\* the key is cached and its content holds the path
PathStored ==
    /\ RequestedKey \in DOMAIN docCache
    /\ toolCall.path \in DOMAIN docCache[RequestedKey].content

\* C26: get_documentation fails exactly when the requested key is not in the
\* documentation cache or the path is absent from the content of that
\* package; otherwise it returns the content stored for the path
C26_GetDocumentationFailsExactly ==
    GotDocumentation =>
        /\ toolCall.result.threw <=> ~PathStored
        /\ ~toolCall.result.threw =>
            /\ toolCall.result.content.kind = "string"
            /\ toolCall.result.content.value = docCache[RequestedKey].content[toolCall.path]

\* for a path that names no property of Object.prototype the call fails
\* exactly when the key or the path is not stored
FailsExactlyForPlainPaths ==
    GotDocumentation /\ toolCall.path \notin ObjectPrototypeNames =>
        /\ toolCall.result.threw <=> ~PathStored
        /\ ~toolCall.result.threw =>
            toolCall.result.content.value = docCache[RequestedKey].content[toolCall.path]

\* ------------------------------------------------------------------------
\* Batch commands
\* ------------------------------------------------------------------------

\* the packages of the passes of the loop that ended, in order
ProcessedKeys == [i \in 1..Len(btProcessed) |-> btProcessed[i].key]

RECURSIVE SumOf(_)
SumOf(counters) ==
    IF counters = <<>> THEN 0 ELSE counters[1] + SumOf(SubSeq(counters, 2, Len(counters)))

\* the passes that ended with the outcome
PassesWith(outcomes) == { i \in 1..Len(btProcessed) : btProcessed[i].outcome \in outcomes }

\* C27: a fetch, update or install run processes each requested package once,
\* in order, whatever happened to the packages before it, and the counters it
\* reports at the end sum to the number of requested packages
C27_BatchTallies ==
    /\ btPc # "crashed"
    /\ btPc = "done" =>
        /\ ProcessedKeys = btItems
        /\ SumOf(ReportedCounters) = Len(btItems)

\* every run processes each package once and in order; the counters of fetch
\* and install sum to the number of packages, those of update to the number
\* of packages that were cached
TalliesBesideSkippedUpdates ==
    /\ btPc # "crashed"
    /\ btPc = "done" =>
        /\ ProcessedKeys = btItems
        /\ btCounts.success = Cardinality(PassesWith({"ok", "link"}))
        /\ btCounts.fail = Cardinality(PassesWith({"fail"}))
        /\ SumOf(ReportedCounters) =
            IF btCmd = "update" THEN Len(btItems) - Cardinality(PassesWith({"skip"}))
            ELSE Len(btItems)

\* ------------------------------------------------------------------------
\* Cached packages and --force
\* ------------------------------------------------------------------------

\* fetch or install with package arguments is at a package that is cached,
\* without --force
AtCachedPackage ==
    /\ btCmd \in {"fetch", "install"}
    /\ ~btForce
    /\ btPc \in {"loop", "resolveCached"}
    /\ btIndex <= Len(btItems)
    /\ isCached(btItems[btIndex])

\* install without arguments is at a package that is cached, without --force
AtCachedManifestKey ==
    /\ inPc = "loop"
    /\ ~inForce
    /\ inIndex <= Len(inKeys)
    /\ isCached(inKeys[inIndex])

\* the cache entry of the key is what it was
EntryUnchanged(packageKey) ==
    /\ getPackageDir(packageKey) \in DOMAIN packagesDir'
    /\ packagesDir'[getPackageDir(packageKey)] = packagesDir[getPackageDir(packageKey)]

\* the step at a cached package starts no download and leaves its entry alone
CachedPackageStep ==
    /\ AtCachedPackage =>
        /\ btPc' \notin {"resolve", "fetch"}
        /\ EntryUnchanged(btItems[btIndex])
    /\ AtCachedManifestKey =>
        /\ inPc' # "fetch"
        /\ EntryUnchanged(inKeys[inIndex])

\* what the passes that ended did: without --force no fetch for a cached
\* package, with --force a fetch for every package
FetchesOfPasses ==
    /\ btCmd \in {"fetch", "install"} =>
        \A i \in 1..Len(btProcessed) :
            /\ ~btForce /\ btProcessed[i].cached => ~btProcessed[i].attempted
            /\ btForce => btProcessed[i].attempted
    /\ \A l \in inLinked :
        /\ ~l.needed => ~l.fetched
        /\ inForce => l.fetched

RecachedWithout(f) ==
    /\ lastCall'.op = "cachePackage"
    /\ now' = now + 1
    /\ getCachedDocFile(lastCall'.key, f) # <<>>
    /\ f \notin MapKeys(lastCall'.docFiles)

\* C29: when a key is cached again with a document map that no longer
\* contains the file name f, getCachedDocFile(k, f) still returns the content
\* the earlier cachePackage call wrote
C29_NonClearingOverwrite ==
    [][\A f \in FileNames :
          RecachedWithout(f) =>
              getCachedDocFileIn(packagesDir', lastCall'.key, f)
                  = getCachedDocFile(lastCall'.key, f)]_vars

\* the document is kept as it was when no file name of the new map is stored
\* under the name f is stored under
KeepsFilesOfOtherNames ==
    [][\A f \in FileNames :
          /\ RecachedWithout(f)
          /\ \A g \in MapKeys(lastCall'.docFiles) : SanitizeFilename(g) # SanitizeFilename(f)
          => getCachedDocFileIn(packagesDir', lastCall'.key, f)
                 = getCachedDocFile(lastCall'.key, f)]_vars


\* ------------------------------------------------------------------------
\* copies and links of a project beside the operations of the cache
\* ------------------------------------------------------------------------

\* what reading through the project entry of a name gives: the directory a
\* copy holds, the cache directory a symbolic link leads to, nothing when the
\* entry or the target of the link is missing
ShownIn(cache, links, name) ==
    IF name \notin DOMAIN links THEN <<>>
    ELSE IF links[name].kind = "dir" THEN <<links[name].content>>
    ELSE IF links[name].target \in DOMAIN cache THEN <<cache[links[name].target]>>
    ELSE <<>>

\* the current contents of the cache directory of a key
CacheContentsIn(cache, packageKey) ==
    IF getPackageCacheDir(packageKey) \in DOMAIN cache
    THEN <<cache[getPackageCacheDir(packageKey)]>> ELSE <<>>

CacheOps == {"cachePackage", "removeFromCache", "clearCache"}

MadeBy(mode) ==
    /\ lastLink.op = "createPackageLink"
    /\ lastLink.mode = mode
    /\ ~lastLink.threw

\* a copy holds what the cache directory held when it was made
CopyIsSnapshot ==
    MadeBy("copy") =>
        /\ EntryKind(linkDir, lastLink.key) = "dir"
        /\ ShownIn(packagesDir, linkDir, LinkName(lastLink.key))
              = CacheContentsIn(packagesDir, lastLink.key)

\* the operation of the cache that follows the making of a copy leaves what
\* the copy shows as it was
CopyKeptByNextCacheOp ==
    (MadeBy("copy") /\ lastLink'.op \in CacheOps) =>
        ShownIn(packagesDir', linkDir', LinkName(lastLink.key))
            = ShownIn(packagesDir, linkDir, LinkName(lastLink.key))

\* and so does every later one, as long as the copy is there
CopiesKeptByCacheOps ==
    lastLink'.op \in CacheOps =>
        \A e \in DOMAIN linkDir :
            linkDir[e].kind = "dir" =>
                ShownIn(packagesDir', linkDir', e) = ShownIn(packagesDir, linkDir, e)

\* every symbolic link of the project shows what the cache directory of its
\* key holds now
LinksShowCache ==
    \A e \in DOMAIN linkDir :
        linkDir[e].kind = "symlink" =>
            ShownIn(packagesDir, linkDir, e) = CacheContentsIn(packagesDir, linkKey[e])

LinkMadeShowsCache ==
    MadeBy("link") =>
        /\ EntryKind(linkDir, lastLink.key) = "symlink"
        /\ ShownIn(packagesDir, linkDir, LinkName(lastLink.key))
              = CacheContentsIn(packagesDir, lastLink.key)

\* C30: after createPackageLink(cwd, k, 'copy') every later cachePackage,
\* removeFromCache or clearCache leaves the contents of the project's copy
\* unchanged; after createPackageLink(cwd, k, 'link') the project entry always
\* shows the current contents of the cache directory of k.
C30_CopyIsIndependentSnapshot ==
    /\ [](CopyIsSnapshot /\ LinkMadeShowsCache /\ LinksShowCache)
    /\ [][CopyKeptByNextCacheOp /\ CopiesKeptByCacheOps]_vars

\* a copy that still shows its directory after removeFromCache took the cache
\* directory of its key away, beside a link that shows the directory
\* cachePackage wrote for its key
C30_Witness ==
    /\ lastLink.op = "removeFromCache"
    /\ \E k \in LinkKeys :
        /\ EntryKind(linkDir, k) = "dir"
        /\ ~isCached(k)
        /\ ShownIn(packagesDir, linkDir, LinkName(k)) # <<>>
    /\ \E k \in LinkKeys :
        /\ EntryKind(linkDir, k) = "symlink"
        /\ isCached(k)
        /\ ShownIn(packagesDir, linkDir, LinkName(k)) = CacheContentsIn(packagesDir, k)

\* ------------------------------------------------------------------------
\* update_packages_documentation and the age of the last update
\* ------------------------------------------------------------------------

UpdateReturned == fnInput.fn = "update_packages_documentation" /\ fnOutput # <<>>

\* the names the call lists once, whose pass starts from the recorded metadata
ListedOnce ==
    { n \in UpdateNames :
        Cardinality({ i \in 1..Len(fnInput.packageList) : fnInput.packageList[i] = n }) = 1 }

\* a recorded lastUpdatedAt less than two hours before the call
RecentlyUpdated(n) ==
    /\ fnInput.metadata[n].lastUpdatedAt # <<>>
    /\ fnInput.now - fnInput.metadata[n].lastUpdatedAt[1] < TWO_HOURS

\* a lastUpdatedAt more than two hours before the call, or none
LongAgoOrNever(n) ==
    \/ fnInput.metadata[n].lastUpdatedAt = <<>>
    \/ fnInput.now - fnInput.metadata[n].lastUpdatedAt[1] > TWO_HOURS

\* C32: update_packages_documentation with force=false skips a package exactly
\* when its recorded lastUpdatedAt is less than two hours before the current
\* time; a package never updated or last updated more than two hours ago is
\* updated; with force=true no package is skipped.
C32_SkipsRecentlyUpdated ==
    (UpdateReturned /\ ~fnOutput[1].isError) =>
        \A n \in ListedOnce :
            InSeq(n, fnOutput[1].skipped) <=> (~fnInput.force /\ RecentlyUpdated(n))

\* what holds of C32: without force the packages never updated or last updated
\* more than two hours ago are the ones skipped, and with force none is
SkipsLongAgoOrNever ==
    (UpdateReturned /\ ~fnOutput[1].isError) =>
        \A n \in ListedOnce :
            InSeq(n, fnOutput[1].skipped) <=> (~fnInput.force /\ LongAgoOrNever(n))

\* ------------------------------------------------------------------------
\* uninstall: the keys and links removed
\* ------------------------------------------------------------------------

UninstallReturned == fnInput.fn = "uninstall" /\ fnOutput # <<>>

\* the packages the command line names
UninstallArguments == Tail(fnInput.positionals)

ManifestBefore == IF fnInput.config = <<>> THEN {} ELSE fnInput.config[1]

ManifestAfter == IF fnOutput[1].config = <<>> THEN {} ELSE fnOutput[1].config[1]

\* the manifest keys of the name of p and, when p carries a version, of its version
KeysNamedBy(p) ==
    { key \in ManifestBefore :
        /\ parsePackageKey(key).name = parsePackageKey(p).name
        /\ parsePackageKey(p).version # <<>> =>
               parsePackageKey(key).version = parsePackageKey(p).version }

KeysNamedByAny(args) == UNION { KeysNamedBy(args[i]) : i \in 1..Len(args) }

\* erudita.json and .erudita lose the keys of gone and their links, and nothing else
RemovesExactly(gone, goneLinks) ==
    /\ ManifestAfter = ManifestBefore \ gone
    /\ fnOutput[1].wrote <=> gone # {}
    /\ DOMAIN fnOutput[1].fs.project = DOMAIN fnInput.fs.project \ goneLinks
    /\ \A e \in DOMAIN fnOutput[1].fs.project :
           fnOutput[1].fs.project[e] = fnInput.fs.project[e]
    /\ fnOutput[1].fs.cache = fnInput.fs.cache

\* C33: `uninstall p` removes from erudita.json, and removes the project link
\* of, exactly the manifest keys whose parsed name equals p's name and, when p
\* carries a version, whose version equals p's; every other key and link is
\* unchanged, erudita.json is rewritten only when a key was removed, and the
\* cache is never modified.
C33_UninstallRemovesExactly ==
    UninstallReturned =>
        RemovesExactly(KeysNamedByAny(UninstallArguments),
                       { LinkName(k) : k \in KeysNamedByAny(UninstallArguments) })

\* a symbolic link whose cache directory is gone
Dangling(k) ==
    /\ EntryKind(fnInput.fs.project, k) = "symlink"
    /\ ~isCachedIn(fnInput.fs.cache, k)

\* what holds of C33: the same for the arguments other than 'u', with the
\* links whose cache directory is gone left in place
UninstallBesideDanglingLinks ==
    UninstallReturned =>
        RemovesExactly(KeysNamedByAny(PackagesToRemove(fnInput.positionals)),
                       { LinkName(k) : k \in
                           { x \in KeysNamedByAny(PackagesToRemove(fnInput.positionals)) :
                               ~Dangling(x) } })

\* ------------------------------------------------------------------------
\* docFiles and the order in which the document fetches complete
\* ------------------------------------------------------------------------

\* what fetchDocFile returned for item i
ContentFetched(i) == IF fetched[i] = "content" THEN <<DocServer(docUrls[i])>> ELSE <<>>

\* docFiles when the fetches complete in the order of the index, as they do
\* under a concurrency of 1
RECURSIVE DocFilesInIndexOrder(_, _)
DocFilesInIndexOrder(m, i) ==
    IF i > Len(docUrls) THEN m
    ELSE DocFilesInIndexOrder(DocFilesAfter(m, docUrls[i], ContentFetched(i)), i + 1)

\* the mapping of a Map, without the order of insertion
Mapping(m) == { m[i] : i \in 1..Len(m) }

\* C34: the docFiles mapping fetchPackageDocs returns is determined by the
\* index and the responses of the server alone: every order in which the
\* concurrent fetches complete yields the filename-to-content mapping that
\* their completion in the order of the index yields.
C34_DocFilesOrderIndependent ==
    Succeeded =>
        Mapping(fdResult[1].docFiles[1]) = Mapping(DocFilesInIndexOrder(<<>>, 1))

\* two documents fetched with content share their file name
SharedFilename ==
    \E i, j \in DOMAIN fetched :
        /\ i # j
        /\ fetched[i] = "content"
        /\ fetched[j] = "content"
        /\ FilenameOfUrl(docUrls[i]) = FilenameOfUrl(docUrls[j])

\* what holds of C34: the mapping is the one of the index order whenever no
\* two fetched documents share a file name
OrderIndependentForDistinctNames ==
    (Succeeded /\ ~SharedFilename) =>
        Mapping(fdResult[1].docFiles[1]) = Mapping(DocFilesInIndexOrder(<<>>, 1))

\* ------------------------------------------------------------------------
\* A failed re-fetch and the cache
\* ------------------------------------------------------------------------

\* update, fetch --force or install --force with packages: the fetch for a
\* cached package comes back without success
FailedRefetchOfBatch ==
    /\ btPc = "fetch"
    /\ isCached(btItems[btIndex])
    /\ Len(btProcessed') = Len(btProcessed) + 1
    /\ btProcessed'[Len(btProcessed')].outcome = "fail"

\* install --force without arguments: the same for a key of erudita.json
FailedRefetchOfManifestKey ==
    /\ inPc = "fetch"
    /\ isCached(inKeys[inIndex])
    /\ inKeys[inIndex] \in inFailed'
    /\ inFetched' = inFetched

FailedRefetchStep ==
    /\ FailedRefetchOfBatch =>
        /\ packagesDir' = packagesDir
        /\ isCachedIn(packagesDir', btItems[btIndex])
    /\ FailedRefetchOfManifestKey =>
        /\ packagesDir' = packagesDir
        /\ isCachedIn(packagesDir', inKeys[inIndex])

\* the directory of the cache was created, removed or written by the step
DirChanged(dir) ==
    \/ (dir \in DOMAIN packagesDir) # (dir \in DOMAIN packagesDir')
    \/ /\ dir \in DOMAIN packagesDir
       /\ dir \in DOMAIN packagesDir'
       /\ packagesDir'[dir] # packagesDir[dir]

\* during a command a directory of the cache changes only where cachePackage
\* is reached for its key, after a fetch for that key
ChangedOnlyByCachePackage ==
    \A dir \in DOMAIN packagesDir \cup DOMAIN packagesDir' :
        DirChanged(dir) =>
            /\ now' = now + 1
            /\ \/ btPc = "fetch" /\ getPackageDir(btItems[btIndex]) = dir
               \/ inPc = "fetch" /\ getPackageDir(inKeys[inIndex]) = dir

\* C35: when fetchPackageDocs returns success=false during update,
\* fetch --force or install --force for a cached key k, the metadata, index
\* text and documents of k are what they were before the command, and k stays
\* cached.
C35_FailedRefetchKeepsCache == [][FailedRefetchStep /\ ChangedOnlyByCachePackage]_vars

\* an update whose fetch failed for a package that is still cached, with the
\* metadata and index text the earlier run cached
C35_Witness ==
    /\ btCmd = "update"
    /\ Len(btProcessed) >= 1
    /\ btProcessed[Len(btProcessed)].cached
    /\ btProcessed[Len(btProcessed)].attempted
    /\ btProcessed[Len(btProcessed)].outcome = "fail"
    /\ getCachedMeta(btProcessed[Len(btProcessed)].key) # <<>>
    /\ getCachedLlmsTxt(btProcessed[Len(btProcessed)].key) = <<"# A">>

\* ------------------------------------------------------------------------
\* install with packages: the links made and erudita.json
\* ------------------------------------------------------------------------

InstallCompleted == btCmd = "install" /\ btPc = "done"

\* the keys whose pass of the run called createPackageLink
KeysLinkedByRun ==
    { btProcessed[i].key : i \in { j \in 1..Len(btProcessed) :
                                      btProcessed[j].outcome \in {"link", "ok"} } }

\* the keys whose pass fetched and cached the package
KeysFetchedByRun ==
    { btProcessed[i].key : i \in { j \in 1..Len(btProcessed) : btProcessed[j].outcome = "ok" } }

\* the keys of the links an install without arguments would prune now
PrunedByNextInstall == pruneProjectLinksOn(FileSystem, btManifest).removed

\* C36: after `install <packages...>` completes, every link it created in
\* .erudita has its package key recorded in erudita.json, so an install
\* without arguments that follows prunes none of those links.
C36_LinkedKeysAreRecorded ==
    InstallCompleted =>
        /\ KeysLinkedByRun \subseteq btManifest
        /\ KeysLinkedByRun \cap PrunedByNextInstall = {}

\* what holds of C36: the same for the packages the run fetched
FetchedKeysAreRecorded ==
    InstallCompleted =>
        /\ KeysFetchedByRun \subseteq btManifest
        /\ KeysFetchedByRun \cap PrunedByNextInstall = {}

\* ------------------------------------------------------------------------
\* install without arguments and erudita.json
\* ------------------------------------------------------------------------

\* C37: an install without arguments never modifies erudita.json: whatever
\* pruning, fetching and linking come to, fetch failures included, the
\* manifest during and after the run is the one the run read.
C37_NoArgsInstallKeepsManifest ==
    inPc # "idle" => btManifest = KeySet(inKeys)

\* a completed run that pruned nothing it kept, fetched one key and failed to
\* fetch another, with both keys still in erudita.json
C37_Witness ==
    /\ inPc = "done"
    /\ inFetched # {}
    /\ inFailed # {}
    /\ inFetched \cup inFailed \subseteq btManifest

\* ------------------------------------------------------------------------
\* update_documentation, then get_documentation
\* ------------------------------------------------------------------------

Updated == toolCall.op = "update_documentation"

\* the entry listDocumentation shows for the package and version of the update
InfoOfUpdate ==
    [name |-> toolCall.packageName,
     version |-> IF toolCall.version = <<>> THEN <<"latest">> ELSE toolCall.version[1]]

ListedOnceAfterUpdate ==
    Updated =>
        /\ InfoOfUpdate \in DOMAIN listDocumentation(docCache)
        /\ listDocumentation(docCache)[InfoOfUpdate] = 1

\* the step is get_documentation(p, v, 'index.md') right after updateDocumentation(p, v)
GetsWhatWasUpdated ==
    /\ Updated
    /\ toolCall'.op = "get_documentation"
    /\ toolCall'.packageName = toolCall.packageName
    /\ toolCall'.version = toolCall.version
    /\ toolCall'.path = "index.md"

ReturnsIndexOfUpdate ==
    /\ ~toolCall'.result.threw
    /\ toolCall'.result.content.kind = "string"
    /\ toolCall'.result.content.value = MockContent(toolCall.packageName)["index.md"]

\* C38: after updateDocumentation(p, v) succeeds, v given or omitted,
\* listDocumentation contains exactly one entry for that package and version,
\* and getDocumentation(p, v, 'index.md') with the same p and v returns
\* content instead of failing.
C38_UpdateThenGet ==
    /\ []ListedOnceAfterUpdate
    /\ [][GetsWhatWasUpdated => ReturnsIndexOfUpdate]_vars

\* what holds of C38: the entry is listed once, and the content is returned
\* when the version was given
UpdateThenGetWithVersion ==
    /\ []ListedOnceAfterUpdate
    /\ [][(GetsWhatWasUpdated /\ toolCall.version # <<>>) => ReturnsIndexOfUpdate]_vars

====
